---- MODULE Spec2Model ----
(***************************************************************************)
(* A model of the session lifecycle and audio-queueing pipeline of the     *)
(* text-to-speech bot.  Each component of the program is modelled with its *)
(* own variables, actions and specification:                               *)
(*   SpecWorker  - audioWorkerImpl and its trackPlayer (ttsbot/audio)      *)
(*   SpecSession - Session with its worker, Close and the two handlers     *)
(*                 that close a session                                    *)
(*   SpecRouter  - managerImpl, the session router (ttsbot/session)        *)
(*   SpecCache   - CachedTTSEngine (package tts)                           *)
(*   SpecPreset  - PresetRegistry, the preset ID repository and the preset *)
(*                 resolver (ttsbot/preset)                                *)
(*   SpecLeave   - the handler of voice-state updates, which closes the    *)
(*                 session of a voice channel its last user left           *)
(*   SpecLocked  - managerImpl called from several goroutines, with its    *)
(*                 mutex and the observers' store writes as steps          *)
(*   SpecPersist - PersistenceManager: the leases of the sessions in the   *)
(*                 store, the heartbeat, a crash and Restore               *)
(*   SpecCodec   - the binary encoding of a persisted session record       *)
(* Go channels are sequences with a capacity, a closed channel is a flag,  *)
(* and every goroutine has a program counter.                              *)
(***************************************************************************)
EXTENDS Integers, Sequences, FiniteSets, TLC

(***************************************************************************)
(* Bounds of the model.                                                    *)
(***************************************************************************)
\* capacity of the task queue (the queueSize argument of NewAudioWorker)
QueueSize == 2
\* number of EnqueueTask calls made on the worker in one behaviour
MaxTasks == 4
\* capacity given to the task queue and to the audio queue of a Session
\* (Session.New and Session.worker make both with capacity 10)
SessionQueueSize == 2
\* number of enqueueSpeechTask calls made on the session in one behaviour
MaxSessionTasks == 3
\* longest list of observers registered with the router
MaxObservers == 2
\* number of GenerateSpeech calls made on the cached engine in one behaviour
MaxCalls == 2
\* number of times the process is started again after a crash
MaxRestarts == 1

VARIABLES
    \* ---- audioWorkerImpl (src/ttsbot/audio/worker.go) ----
    aw_taskQueue,      \* chan SpeechTask, capacity QueueSize
    aw_stopWorker,     \* TRUE once close(w.stopWorker) has run
    aw_panic,          \* TRUE once a goroutine has panicked
    aw_pc,             \* position of workerLoop
    aw_task,           \* the task workerLoop is processing
    aw_lastSpeakerID,  \* local of workerLoop
    aw_call,           \* the EnqueueTask call of each calling goroutine
    aw_nextId,         \* identity of the next task handed to EnqueueTask
    aw_accepted,       \* identities of the tasks EnqueueTask sent, in order
    aw_processed,      \* identities of the tasks workerLoop received, in order
    \* ---- trackPlayer (src/ttsbot/audio/track.go) ----
    tp_queue,          \* chan []byte, capacity 3 * QueueSize
    tp_provider,       \* the track being played, NoTrack before the first
    \* ---- Session (src/unnamed/part_010, lines 1-381) ----
    ss_taskQueue,      \* chan SpeechTask of New
    ss_queueClosed,    \* TRUE once close(s.taskQueue) has run
    ss_stopWorker,     \* TRUE once close(s.stopWorker) has run
    ss_connClosed,     \* TRUE once s.conn.Close has been called
    ss_panic,          \* the panic that ended the process, NoPanic before
    ss_pc,             \* position of Session.worker
    ss_task,           \* the task Session.processTask is working on
    ss_resp,           \* the response processTask is about to push
    ss_lastSpeakerID,  \* local of Session.worker
    ss_audioQueue,     \* chan *tts.SpeechResponse of Session.worker
    ss_provider,       \* trackPlayer.provider of the session's player
    ss_enq,            \* the enqueueSpeechTask call of each event goroutine
    ss_nextId,         \* identity of the next task handed to enqueueSpeechTask
    ss_closer,         \* position of each handler that closes the session
    ss_inRouter,       \* TRUE while the router maps the voice channel to the session
    ss_errorLog,       \* the responses the player logged as not convertible
    \* ---- managerImpl (src/ttsbot/session/manager.go) ----
    rt_sessions,       \* map voice channel -> *Session
    rt_readingToVoice, \* map reading channel -> voice channel
    rt_voiceToReading, \* map voice channel -> reading channel
    rt_observers,      \* []SessionLifecycleObserver
    rt_notified,       \* the observer calls made by the last Add or Delete
    rt_lastOp,         \* the last call made on the router
    \* ---- CachedTTSEngine (src/unnamed/part_005) ----
    ce_cfgTTL,         \* the ttl argument given to NewCachedTTSEngine
    ce_ttl,            \* CachedTTSEngine.ttl
    ce_hash,           \* CachedTTSEngine.hash: what was written since Reset
    ce_cache,          \* the redis cache: key -> item
    ce_pending,        \* the detached goroutines about to call redisCache.Set
    ce_call,           \* the GenerateSpeech call of each session worker
    ce_nextId,         \* identity of the next GenerateSpeech call
    ce_engineCalls,    \* number of calls made on the wrapped engine
    ce_fault,          \* TRUE once a cache or engine call failed, an entry
                       \* expired or a key was computed wrongly
    \* ---- PresetRegistry, PresetIDRepository, presetResolverImpl ----
    pr_variant,        \* which resolveID the build holds (preset.go:112 or :204)
    pr_presets,        \* PresetRegistry.presets: identifier -> Preset
    pr_rows,           \* table scoped_preset_ids: <<scope, id>> -> preset_id
    pr_written,        \* per key, what the last Save or Delete that succeeded did
    pr_resolver,       \* the resolver NewPresetResolver returned, if any
    pr_last,           \* the last call made and what it returned
    \* ---- the voice-state handler (manager.go:163-205, Session.onLeaveVoiceChannel) ----
    lv_variant,        \* which isVoiceChannelEmpty the build holds
    lv_voiceStates,    \* the voice-state cache: user -> voice channel
    lv_members,        \* the users the member cache holds
    lv_live,           \* TRUE while the session is not closed
    lv_inRouter,       \* TRUE while the router maps the voice channel to the session
    lv_last,            \* the last event handled and what the handler did
    \* ---- managerImpl under its mutex, called from several goroutines ----
    rl_mu,             \* managerImpl.mu: the goroutine that holds it, or NoHolder
    rl_sessions,       \* map voice channel -> *Session
    rl_readingToVoice, \* map reading channel -> voice channel
    rl_voiceToReading, \* map voice channel -> reading channel
    rl_observers,      \* []SessionLifecycleObserver
    rl_call,            \* the call each goroutine is making on the router
    \* ---- PersistenceManager (src/unnamed/part_009, ttsbot/session/persistence.go) ----
    pm_variant,        \* which Restore the build holds (part_009:143 or persistence.go:150)
    pm_proc,           \* "running" or "crashed", and the time since the last crash
    pm_store,          \* the redis store: key -> entry with the rest of its TTL, or NoEntry
    pm_sessions,       \* the router's map voice channel -> reading channel
    pm_persistentSessions, \* PersistenceManager.persistentSessions
    pm_lastWrite,      \* per voice channel, how the last write of its record ended
    pm_beat,           \* the goroutine of StartHeartbeatLoop
    pm_restore,        \* the call of Restore
    pm_go,             \* per key, the goroutine Restore started for its record
    pm_scan,           \* the keys the store has held since Restore began
    \* ---- persistentSession.MarshalBinary / UnmarshalBinary ----
    cd_variant,        \* which persistentSession the build holds (32 or 24 bytes)
    cd_session,        \* the record MarshalBinary is called on
    cd_data,           \* the bytes: what MarshalBinary returned, then what redis hands back
    cd_before,         \* the target record before UnmarshalBinary is called on it
    cd_target,         \* the target record of UnmarshalBinary
    cd_err,            \* "none" before the call, then whether UnmarshalBinary returned an error
    cd_pc              \* "new", "stored", "fetched", "done"

awVars == <<aw_taskQueue, aw_stopWorker, aw_panic, aw_pc, aw_task,
            aw_lastSpeakerID, aw_call, aw_nextId, aw_accepted, aw_processed,
            tp_queue, tp_provider>>

ssVars == <<ss_taskQueue, ss_queueClosed, ss_stopWorker, ss_connClosed,
            ss_panic, ss_pc, ss_task, ss_resp, ss_lastSpeakerID, ss_audioQueue,
            ss_provider, ss_enq, ss_nextId, ss_closer, ss_inRouter,
            ss_errorLog>>

rtVars == <<rt_sessions, rt_readingToVoice, rt_voiceToReading, rt_observers,
            rt_notified, rt_lastOp>>

ceVars == <<ce_cfgTTL, ce_ttl, ce_hash, ce_cache, ce_pending, ce_call,
            ce_nextId, ce_engineCalls, ce_fault>>

prVars == <<pr_variant, pr_presets, pr_rows, pr_written, pr_resolver, pr_last>>

lvVars == <<lv_variant, lv_voiceStates, lv_members, lv_live, lv_inRouter, lv_last>>

rlVars == <<rl_mu, rl_sessions, rl_readingToVoice, rl_voiceToReading, rl_observers, rl_call>>

pmVars == <<pm_variant, pm_proc, pm_store, pm_sessions,
            pm_persistentSessions, pm_lastWrite, pm_beat, pm_restore, pm_go,
            pm_scan>>

cdVars == <<cd_variant, cd_session, cd_data, cd_before, cd_target, cd_err, cd_pc>>

vars == <<awVars, ssVars, rtVars, ceVars, prVars, lvVars, rlVars, pmVars, cdVars>>

\* the variables of the other components
notWorker == <<ssVars, rtVars, ceVars, prVars, lvVars, rlVars, pmVars, cdVars>>
notSession == <<awVars, rtVars, ceVars, prVars, lvVars, rlVars, pmVars, cdVars>>
notRouter == <<awVars, ssVars, ceVars, prVars, lvVars, rlVars, pmVars, cdVars>>
notCache == <<awVars, ssVars, rtVars, prVars, lvVars, rlVars, pmVars, cdVars>>
notPreset == <<awVars, ssVars, rtVars, ceVars, lvVars, rlVars, pmVars, cdVars>>
notLeave == <<awVars, ssVars, rtVars, ceVars, prVars, rlVars, pmVars, cdVars>>
notLocked == <<awVars, ssVars, rtVars, ceVars, prVars, lvVars, pmVars, cdVars>>
notPersist == <<awVars, ssVars, rtVars, ceVars, prVars, lvVars, rlVars, cdVars>>
notCodec == <<awVars, ssVars, rtVars, ceVars, prVars, lvVars, rlVars, pmVars>>

(***************************************************************************)
(* Helpers.                                                                *)
(***************************************************************************)
SeqMap(s, F(_)) == [i \in 1..Len(s) |-> F(s[i])]

IdOf(t) == t.id

(***************************************************************************)
(* audioWorkerImpl: tasks.                                                 *)
(***************************************************************************)
\* the goroutines that call EnqueueTask concurrently
Callers == {"c1", "c2"}

\* snowflake.ID(0) is the zero value: "no speaker yet"
NoSpeaker == 0

\* The SpeechTask values handed to EnqueueTask, in the order of the calls:
\* two messages of speaker 1, an announcement without speaker, a message
\* of speaker 2, and so on.
TaskShapes ==
    << [Segments |-> <<"a">>,      ContainsName |-> TRUE,  Speaker |-> 1],
       [Segments |-> <<"b", "c">>, ContainsName |-> TRUE,  Speaker |-> 1],
       [Segments |-> <<"">>,       ContainsName |-> FALSE, Speaker |-> NoSpeaker],
       [Segments |-> <<"d">>,      ContainsName |-> TRUE,  Speaker |-> 2] >>

NewSpeechTask(id) ==
    LET shape == TaskShapes[((id - 1) % Len(TaskShapes)) + 1] IN
    [id |-> id, Segments |-> shape.Segments,
     ContainsName |-> shape.ContainsName, Speaker |-> shape.Speaker]

SpeakerName(speaker) == <<"name", speaker>>

NoTask == [id |-> 0, Segments |-> <<>>, ContainsName |-> FALSE, Speaker |-> NoSpeaker]

NoTrack == <<>>

IdleCall == [pc |-> "idle", task |-> NoTask, res |-> "none"]

InitWorker ==
    /\ aw_taskQueue = <<>>
    /\ aw_stopWorker = FALSE
    /\ aw_panic = FALSE
    /\ aw_pc = "select"
    /\ aw_task = NoTask
    /\ aw_lastSpeakerID = NoSpeaker
    /\ aw_call = [c \in Callers |-> IdleCall]
    /\ aw_nextId = 1
    /\ aw_accepted = <<>>
    /\ aw_processed = <<>>
    /\ tp_queue = <<>>
    /\ tp_provider = NoTrack

(***************************************************************************)
(* audioWorkerImpl.Stop: close(w.stopWorker); closing a closed channel     *)
(* panics.  trackPlayer.Close is the embedded audio.Player's.              *)
(***************************************************************************)
Stop ==
    /\ ~aw_panic
    /\ IF aw_stopWorker
          THEN aw_panic' = TRUE /\ UNCHANGED aw_stopWorker
          ELSE aw_stopWorker' = TRUE /\ UNCHANGED aw_panic
    /\ UNCHANGED <<aw_taskQueue, aw_pc, aw_task, aw_lastSpeakerID, aw_call,
                   aw_nextId, aw_accepted, aw_processed, tp_queue, tp_provider>>

\* EnqueueTask as it would be without its first select
EnqueueTaskCheck_NoStopCheck(c) ==
    /\ ~aw_panic
    /\ aw_call[c].pc = "idle"
    /\ aw_nextId <= MaxTasks
    /\ aw_call' = [aw_call EXCEPT ![c] =
          [pc |-> "send", task |-> NewSpeechTask(aw_nextId), res |-> "none"]]
    /\ aw_nextId' = aw_nextId + 1
    /\ UNCHANGED <<aw_taskQueue, aw_stopWorker, aw_panic, aw_pc, aw_task,
                   aw_lastSpeakerID, aw_accepted, aw_processed, tp_queue,
                   tp_provider>>

(***************************************************************************)
(* audioWorkerImpl.EnqueueTask, first select: the stopped check.           *)
(***************************************************************************)
EnqueueTaskCheck(c) ==
    /\ ~aw_panic
    /\ aw_call[c].pc = "idle"
    /\ aw_nextId <= MaxTasks
    /\ aw_call' = [aw_call EXCEPT ![c] =
          IF aw_stopWorker
             THEN [pc |-> "idle", task |-> NoTask, res |-> "stopped"]
             ELSE [pc |-> "send", task |-> NewSpeechTask(aw_nextId),
                   res |-> "none"]]
    /\ aw_nextId' = aw_nextId + 1
    /\ UNCHANGED <<aw_taskQueue, aw_stopWorker, aw_panic, aw_pc, aw_task,
                   aw_lastSpeakerID, aw_accepted, aw_processed, tp_queue,
                   tp_provider>>

\* EnqueueTask with a plain send, w.taskQueue <- task, in place of the select
EnqueueTaskSend_Blocking(c) ==
    /\ ~aw_panic
    /\ aw_call[c].pc = "send"
    /\ Len(aw_taskQueue) < QueueSize
    /\ aw_taskQueue' = Append(aw_taskQueue, aw_call[c].task)
    /\ aw_accepted' = Append(aw_accepted, aw_call[c].task.id)
    /\ aw_call' = [aw_call EXCEPT ![c].pc = "idle", ![c].res = "ok",
                                  ![c].task = NoTask]
    /\ UNCHANGED <<aw_stopWorker, aw_panic, aw_pc, aw_task, aw_lastSpeakerID,
                   aw_nextId, aw_processed, tp_queue, tp_provider>>

(***************************************************************************)
(* audioWorkerImpl.EnqueueTask, second select: the non-blocking send.      *)
(***************************************************************************)
EnqueueTaskSend(c) ==
    /\ ~aw_panic
    /\ aw_call[c].pc = "send"
    /\ IF Len(aw_taskQueue) < QueueSize
          THEN /\ aw_taskQueue' = Append(aw_taskQueue, aw_call[c].task)
               /\ aw_accepted' = Append(aw_accepted, aw_call[c].task.id)
               /\ aw_call' = [aw_call EXCEPT ![c].pc = "idle", ![c].res = "ok",
                                             ![c].task = NoTask]
          ELSE /\ aw_call' = [aw_call EXCEPT ![c].pc = "idle", ![c].res = "full",
                                             ![c].task = NoTask]
               /\ UNCHANGED <<aw_taskQueue, aw_accepted>>
    /\ UNCHANGED <<aw_stopWorker, aw_panic, aw_pc, aw_task, aw_lastSpeakerID,
                   aw_nextId, aw_processed, tp_queue, tp_provider>>

(***************************************************************************)
(* workerLoop: the select.  With the stop channel closed and a task        *)
(* queued, Go takes either case.                                           *)
(***************************************************************************)
WorkerStop ==
    /\ ~aw_panic
    /\ aw_pc = "select"
    /\ aw_stopWorker
    /\ aw_pc' = "done"
    /\ UNCHANGED <<aw_taskQueue, aw_stopWorker, aw_panic, aw_task,
                   aw_lastSpeakerID, aw_call, aw_nextId, aw_accepted,
                   aw_processed, tp_queue, tp_provider>>

\* a worker that announces the speaker of every annotated task
WithSpeakerName_Always(task, last) ==
    IF task.ContainsName
       THEN [task EXCEPT !.Segments = <<SpeakerName(task.Speaker)>> \o task.Segments]
       ELSE task

\* the task as workerLoop hands it to processTask
WithSpeakerName(task, last) ==
    IF task.ContainsName /\ task.Speaker # last
       THEN [task EXCEPT !.Segments = <<SpeakerName(task.Speaker)>> \o task.Segments]
       ELSE task

NextSpeakerID(task, last) ==
    IF task.ContainsName /\ task.Speaker # last THEN task.Speaker ELSE last

\* a receive that takes the newest element
Receive_Newest(queue) == queue[Len(queue)]

\* the receive of the task channel: the oldest element
Receive(queue) == Head(queue)

AfterReceive(queue) == Tail(queue)

\* case task := <-w.taskQueue, and processTask's engine lookup
WorkerReceive ==
    /\ ~aw_panic
    /\ aw_pc = "select"
    /\ aw_taskQueue # <<>>
    /\ LET task == Receive(aw_taskQueue) IN
       /\ aw_taskQueue' = AfterReceive(aw_taskQueue)
       /\ aw_processed' = Append(aw_processed, task.id)
       /\ aw_lastSpeakerID' = NextSpeakerID(task, aw_lastSpeakerID)
       /\ \E engineFound \in BOOLEAN :
             IF engineFound
                THEN /\ aw_task' = WithSpeakerName(task, aw_lastSpeakerID)
                     /\ aw_pc' = "segments"
                ELSE /\ aw_task' = NoTask
                     /\ aw_pc' = "select"
    /\ UNCHANGED <<aw_stopWorker, aw_panic, aw_call, aw_nextId, aw_accepted,
                   tp_queue, tp_provider>>

(***************************************************************************)
(* trackPlayer.ProvideAudio: send, stop signal or default (queue full).    *)
(***************************************************************************)
TrackQueueSize == QueueSize * 3

\* a player that puts a new track in front of the tracks waiting
ProvideAudio_Front(audio) ==
    \/ /\ Len(tp_queue) < TrackQueueSize
       /\ tp_queue' = <<audio>> \o tp_queue
    \/ /\ aw_stopWorker
       /\ UNCHANGED tp_queue
    \/ /\ Len(tp_queue) >= TrackQueueSize
       /\ ~aw_stopWorker
       /\ UNCHANGED tp_queue

ProvideAudio(audio) ==
    \/ /\ Len(tp_queue) < TrackQueueSize
       /\ tp_queue' = Append(tp_queue, audio)
    \/ /\ aw_stopWorker
       /\ UNCHANGED tp_queue
    \/ /\ Len(tp_queue) >= TrackQueueSize
       /\ ~aw_stopWorker
       /\ UNCHANGED tp_queue

(***************************************************************************)
(* processTask: one iteration of the loop over task.Segments.  The engine  *)
(* either returns audio or fails (an error, or the task's 10 s deadline).  *)
(***************************************************************************)
WorkerSegment ==
    /\ ~aw_panic
    /\ aw_pc = "segments"
    /\ aw_task.Segments # <<>>
    /\ \/ /\ ProvideAudio(<<aw_task.id, Head(aw_task.Segments)>>)
          /\ aw_task' = [aw_task EXCEPT !.Segments = Tail(aw_task.Segments)]
          /\ aw_pc' = "segments"
       \/ /\ aw_task' = NoTask
          /\ aw_pc' = "select"
          /\ UNCHANGED tp_queue
    /\ UNCHANGED <<aw_taskQueue, aw_stopWorker, aw_panic, aw_lastSpeakerID,
                   aw_call, aw_nextId, aw_accepted, aw_processed, tp_provider>>

\* processTask returns after the last segment
WorkerTaskDone ==
    /\ ~aw_panic
    /\ aw_pc = "segments"
    /\ aw_task.Segments = <<>>
    /\ aw_task' = NoTask
    /\ aw_pc' = "select"
    /\ UNCHANGED <<aw_taskQueue, aw_stopWorker, aw_panic, aw_lastSpeakerID,
                   aw_call, aw_nextId, aw_accepted, aw_processed, tp_queue,
                   tp_provider>>

(***************************************************************************)
(* trackPlayer.next, called by OnEnd: the stop signal or the next track.   *)
(***************************************************************************)
TrackNext ==
    /\ ~aw_panic
    /\ \/ /\ aw_stopWorker
          /\ UNCHANGED <<tp_queue, tp_provider>>
       \/ /\ tp_queue # <<>>
          /\ tp_provider' = Head(tp_queue)
          /\ tp_queue' = Tail(tp_queue)
    /\ UNCHANGED <<aw_taskQueue, aw_stopWorker, aw_panic, aw_pc, aw_task,
                   aw_lastSpeakerID, aw_call, aw_nextId, aw_accepted,
                   aw_processed>>

NextWorker ==
    \/ Stop /\ UNCHANGED notWorker
    \/ \E c \in Callers : EnqueueTaskCheck(c) /\ UNCHANGED notWorker
    \/ \E c \in Callers : EnqueueTaskSend(c) /\ UNCHANGED notWorker
    \/ WorkerStop /\ UNCHANGED notWorker
    \/ WorkerReceive /\ UNCHANGED notWorker
    \/ WorkerSegment /\ UNCHANGED notWorker
    \/ WorkerTaskDone /\ UNCHANGED notWorker
    \/ TrackNext /\ UNCHANGED notWorker

(***************************************************************************)
(* Session (src/unnamed/part_010): New, Close, worker, processTask,        *)
(* enqueueSpeechTask, and the two handlers that close a session:           *)
(* LeaveHandler (ttsbot/commands/join.go) and handleLeaveVoiceChannel      *)
(* (ttsbot/session/manager.go).                                            *)
(***************************************************************************)
\* the goroutines that call enqueueSpeechTask: a message, a join or leave
\* announcement, the launch announcement of New
Enqueuers == {"e1", "e2"}

\* the /leave command's goroutine and the voice-state event handler
Closers == {"leaveCmd", "voiceState"}

\* SpeechTask values of package session: Segments, ContainsSpeaker, SpeakerID
SessionTaskShapes ==
    << [Segments |-> <<"a">>,     ContainsSpeaker |-> TRUE,  SpeakerID |-> 1],
       [Segments |-> <<"", "b">>, ContainsSpeaker |-> TRUE,  SpeakerID |-> 1],
       [Segments |-> <<"c">>,     ContainsSpeaker |-> FALSE, SpeakerID |-> NoSpeaker],
       [Segments |-> <<>>,        ContainsSpeaker |-> FALSE, SpeakerID |-> NoSpeaker] >>

SessionTask(id) ==
    LET shape == SessionTaskShapes[((id - 1) % Len(SessionTaskShapes)) + 1] IN
    [id |-> id, Segments |-> shape.Segments,
     ContainsSpeaker |-> shape.ContainsSpeaker, SpeakerID |-> shape.SpeakerID]

\* the zero value a receive from the closed task channel yields
ZeroTask ==
    [id |-> 0, Segments |-> <<>>, ContainsSpeaker |-> FALSE, SpeakerID |-> NoSpeaker]

NoResp == <<>>

NoPanic == "none"

AudioFormats == {"mp3", "unknown"}

InitSession ==
    /\ ss_taskQueue = <<>>
    /\ ss_queueClosed = FALSE
    /\ ss_stopWorker = FALSE
    /\ ss_connClosed = FALSE
    /\ ss_panic = NoPanic
    /\ ss_pc = "select"
    /\ ss_task = ZeroTask
    /\ ss_resp = NoResp
    /\ ss_lastSpeakerID = NoSpeaker
    /\ ss_audioQueue = <<>>
    /\ ss_provider = NoTrack
    /\ ss_enq = [e \in Enqueuers |-> [pc |-> "idle", task |-> ZeroTask]]
    /\ ss_nextId = 1
    /\ ss_closer = [k \in Closers |-> "idle"]
    /\ ss_inRouter = TRUE
    /\ ss_errorLog = <<>>

\* enqueueSpeechTask: the empty-task return and the first select
\* (ctx.Done, stopWorker, default)
SessionEnqueueCheck(e) ==
    /\ ss_panic = NoPanic
    /\ ss_enq[e].pc = "idle"
    /\ ss_nextId <= MaxSessionTasks
    /\ ss_nextId' = ss_nextId + 1
    /\ LET task == SessionTask(ss_nextId) IN
       IF Len(task.Segments) = 0 \/ ss_stopWorker
          THEN UNCHANGED ss_enq
          ELSE \/ UNCHANGED ss_enq          \* ctx.Done()
               \/ ss_enq' = [ss_enq EXCEPT ![e] = [pc |-> "send", task |-> task]]
    /\ UNCHANGED <<ss_taskQueue, ss_queueClosed, ss_stopWorker, ss_connClosed,
                   ss_panic, ss_pc, ss_task, ss_resp, ss_lastSpeakerID,
                   ss_audioQueue, ss_provider, ss_closer, ss_inRouter,
                   ss_errorLog>>

\* enqueueSpeechTask: the second select; a send on a closed channel panics
SessionEnqueueSend(e) ==
    /\ ss_panic = NoPanic
    /\ ss_enq[e].pc = "send"
    /\ ss_enq' = [ss_enq EXCEPT ![e] = [pc |-> "idle", task |-> ZeroTask]]
    /\ IF ss_queueClosed
          THEN ss_panic' = "send on closed channel" /\ UNCHANGED ss_taskQueue
          ELSE /\ UNCHANGED ss_panic
               /\ IF Len(ss_taskQueue) < SessionQueueSize
                     THEN ss_taskQueue' = Append(ss_taskQueue, ss_enq[e].task)
                     ELSE UNCHANGED ss_taskQueue
    /\ UNCHANGED <<ss_queueClosed, ss_stopWorker, ss_connClosed, ss_pc, ss_task,
                   ss_resp, ss_lastSpeakerID, ss_audioQueue, ss_provider,
                   ss_nextId, ss_closer, ss_inRouter,
                   ss_errorLog>>

\* Session.worker: case <-stopWorker
SessionWorkerStop ==
    /\ ss_panic = NoPanic
    /\ ss_pc = "select"
    /\ ss_stopWorker
    /\ ss_pc' = "done"
    /\ UNCHANGED <<ss_taskQueue, ss_queueClosed, ss_stopWorker, ss_connClosed,
                   ss_panic, ss_task, ss_resp, ss_lastSpeakerID, ss_audioQueue,
                   ss_provider, ss_enq, ss_nextId, ss_closer, ss_inRouter,
                   ss_errorLog>>

\* Session.worker: case task := <-queue; a closed and drained channel
\* yields the zero task
SessionWorkerReceive ==
    /\ ss_panic = NoPanic
    /\ ss_pc = "select"
    /\ ss_taskQueue # <<>> \/ ss_queueClosed
    /\ LET task == IF ss_taskQueue # <<>> THEN Head(ss_taskQueue) ELSE ZeroTask
           named == task.ContainsSpeaker /\ task.SpeakerID # ss_lastSpeakerID
       IN /\ ss_taskQueue' = IF ss_taskQueue # <<>> THEN Tail(ss_taskQueue) ELSE <<>>
          /\ ss_task' = IF named
                           THEN [task EXCEPT !.Segments =
                                    <<SpeakerName(task.SpeakerID)>> \o task.Segments]
                           ELSE task
          /\ ss_lastSpeakerID' = IF named THEN task.SpeakerID ELSE ss_lastSpeakerID
    /\ ss_pc' = "segments"
    /\ UNCHANGED <<ss_queueClosed, ss_stopWorker, ss_connClosed, ss_panic,
                   ss_resp, ss_audioQueue, ss_provider, ss_enq, ss_nextId,
                   ss_closer, ss_inRouter,
                   ss_errorLog>>

\* Session.processTask: one iteration up to the send: an empty segment is
\* skipped, a failed synthesis is skipped, a response is kept for the send
SessionSegment ==
    /\ ss_panic = NoPanic
    /\ ss_pc = "segments"
    /\ ss_task.Segments # <<>>
    /\ ss_task' = [ss_task EXCEPT !.Segments = Tail(ss_task.Segments)]
    /\ IF Head(ss_task.Segments) = ""
          THEN UNCHANGED <<ss_pc, ss_resp>>
          ELSE \/ UNCHANGED <<ss_pc, ss_resp>>     \* performTextToSpeech failed
               \/ \E format \in AudioFormats :
                     /\ ss_resp' = [Format |-> format, task |-> ss_task.id,
                                    segment |-> Head(ss_task.Segments)]
                     /\ ss_pc' = "push"
    /\ UNCHANGED <<ss_taskQueue, ss_queueClosed, ss_stopWorker, ss_connClosed,
                   ss_panic, ss_lastSpeakerID, ss_audioQueue, ss_provider,
                   ss_enq, ss_nextId, ss_closer, ss_inRouter,
                   ss_errorLog>>

\* Session.processTask: audioQueue <- resp, a send that waits for room
SessionPush ==
    /\ ss_panic = NoPanic
    /\ ss_pc = "push"
    /\ Len(ss_audioQueue) < SessionQueueSize
    /\ ss_audioQueue' = Append(ss_audioQueue, ss_resp)
    /\ ss_resp' = NoResp
    /\ ss_pc' = "segments"
    /\ UNCHANGED <<ss_taskQueue, ss_queueClosed, ss_stopWorker, ss_connClosed,
                   ss_panic, ss_task, ss_lastSpeakerID, ss_provider, ss_enq,
                   ss_nextId, ss_closer, ss_inRouter,
                   ss_errorLog>>

\* Session.processTask returns
SessionTaskDone ==
    /\ ss_panic = NoPanic
    /\ ss_pc = "segments"
    /\ ss_task.Segments = <<>>
    /\ ss_task' = ZeroTask
    /\ ss_pc' = "select"
    /\ UNCHANGED <<ss_taskQueue, ss_queueClosed, ss_stopWorker, ss_connClosed,
                   ss_panic, ss_resp, ss_lastSpeakerID, ss_audioQueue,
                   ss_provider, ss_enq, ss_nextId, ss_closer, ss_inRouter,
                   ss_errorLog>>

\* a conversion that accepts every format
ConvertToFrameProvider_All(resp) == TRUE

\* convertToFrameProvider: only mp3 is decoded
ConvertToFrameProvider(resp) == resp.Format = "mp3"

\* Session.worker makes the player's close channel (trackClose) and hands it
\* to newTrackPlayer; nothing closes it, Session.Close included
trackClose == FALSE

\* trackPlayer.next of package session, called from OnEnd: a select over
\* the close channel and the audio queue.  A response that cannot be
\* converted is logged and next returns with the provider as it was; the
\* player reports the end of the provider it holds again and OnEnd calls
\* next once more.
SessionTrackNext ==
    /\ ss_panic = NoPanic
    /\ \/ /\ trackClose                      \* case <-p.close
          /\ UNCHANGED <<ss_audioQueue, ss_provider, ss_errorLog>>
       \/ /\ ss_audioQueue # <<>>             \* case track := <-p.queue
          /\ ss_audioQueue' = Tail(ss_audioQueue)
          /\ IF ConvertToFrameProvider(Head(ss_audioQueue))
                THEN /\ ss_provider' = Head(ss_audioQueue)
                     /\ UNCHANGED ss_errorLog
                ELSE /\ ss_errorLog' = Append(ss_errorLog, Head(ss_audioQueue))
                     /\ UNCHANGED ss_provider
    /\ UNCHANGED <<ss_taskQueue, ss_queueClosed, ss_stopWorker, ss_connClosed,
                   ss_panic, ss_pc, ss_task, ss_resp, ss_lastSpeakerID, ss_enq,
                   ss_nextId, ss_closer, ss_inRouter>>

\* LeaveHandler and handleLeaveVoiceChannel: GetByVoiceChannel; the voice
\* state handler closes only when onLeaveVoiceChannel finds the channel empty
CloserLookup(k) ==
    /\ ss_panic = NoPanic
    /\ ss_closer[k] = "idle"
    /\ IF ss_inRouter
          THEN \/ ss_closer' = [ss_closer EXCEPT ![k] = "conn"]
               \/ /\ k = "voiceState"       \* LeaveResultKeepAlive
                  /\ ss_closer' = [ss_closer EXCEPT ![k] = "done"]
          ELSE ss_closer' = [ss_closer EXCEPT ![k] = "done"]
    /\ UNCHANGED <<ss_taskQueue, ss_queueClosed, ss_stopWorker, ss_connClosed,
                   ss_panic, ss_pc, ss_task, ss_resp, ss_lastSpeakerID,
                   ss_audioQueue, ss_provider, ss_enq, ss_nextId, ss_inRouter,
                   ss_errorLog>>

\* Session.Close: s.conn.Close(ctx)
CloseConn(k) ==
    /\ ss_panic = NoPanic
    /\ ss_closer[k] = "conn"
    /\ ss_connClosed' = TRUE
    /\ ss_closer' = [ss_closer EXCEPT ![k] = "stop"]
    /\ UNCHANGED <<ss_taskQueue, ss_queueClosed, ss_stopWorker, ss_panic, ss_pc,
                   ss_task, ss_resp, ss_lastSpeakerID, ss_audioQueue,
                   ss_provider, ss_enq, ss_nextId, ss_inRouter,
                   ss_errorLog>>

\* what close(ch) does to a channel whose closed flag is `closed`:
\* closing a closed channel panics
CloseChannel(closed) ==
    [closed |-> TRUE,
     panic |-> IF closed THEN "close of closed channel" ELSE NoPanic]

\* Session.Close: close(s.stopWorker)
CloseStopWorker(k) ==
    /\ ss_panic = NoPanic
    /\ ss_closer[k] = "stop"
    /\ ss_stopWorker' = CloseChannel(ss_stopWorker).closed
    /\ ss_panic' = CloseChannel(ss_stopWorker).panic
    /\ ss_closer' = [ss_closer EXCEPT ![k] = "queue"]
    /\ UNCHANGED <<ss_taskQueue, ss_queueClosed, ss_connClosed, ss_pc, ss_task,
                   ss_resp, ss_lastSpeakerID, ss_audioQueue, ss_provider,
                   ss_enq, ss_nextId, ss_inRouter,
                   ss_errorLog>>

\* Session.Close: close(s.taskQueue)
CloseTaskQueue(k) ==
    /\ ss_panic = NoPanic
    /\ ss_closer[k] = "queue"
    /\ ss_queueClosed' = CloseChannel(ss_queueClosed).closed
    /\ ss_panic' = CloseChannel(ss_queueClosed).panic
    /\ ss_closer' = [ss_closer EXCEPT ![k] = "delete"]
    /\ UNCHANGED <<ss_taskQueue, ss_stopWorker, ss_connClosed, ss_pc, ss_task,
                   ss_resp, ss_lastSpeakerID, ss_audioQueue, ss_provider,
                   ss_enq, ss_nextId, ss_inRouter,
                   ss_errorLog>>

\* manager.Delete after Close
CloserDelete(k) ==
    /\ ss_panic = NoPanic
    /\ ss_closer[k] = "delete"
    /\ ss_inRouter' = FALSE
    /\ ss_closer' = [ss_closer EXCEPT ![k] = "done"]
    /\ UNCHANGED <<ss_taskQueue, ss_queueClosed, ss_stopWorker, ss_connClosed,
                   ss_panic, ss_pc, ss_task, ss_resp, ss_lastSpeakerID,
                   ss_audioQueue, ss_provider, ss_enq, ss_nextId, ss_errorLog>>

NextSession ==
    \/ \E e \in Enqueuers : SessionEnqueueCheck(e) /\ UNCHANGED notSession
    \/ \E e \in Enqueuers : SessionEnqueueSend(e) /\ UNCHANGED notSession
    \/ SessionWorkerStop /\ UNCHANGED notSession
    \/ SessionWorkerReceive /\ UNCHANGED notSession
    \/ SessionSegment /\ UNCHANGED notSession
    \/ SessionPush /\ UNCHANGED notSession
    \/ SessionTaskDone /\ UNCHANGED notSession
    \/ SessionTrackNext /\ UNCHANGED notSession
    \/ \E k \in Closers : CloserLookup(k) /\ UNCHANGED notSession
    \/ \E k \in Closers : CloseConn(k) /\ UNCHANGED notSession
    \/ \E k \in Closers : CloseStopWorker(k) /\ UNCHANGED notSession
    \/ \E k \in Closers : CloseTaskQueue(k) /\ UNCHANGED notSession
    \/ \E k \in Closers : CloserDelete(k) /\ UNCHANGED notSession

(***************************************************************************)
(* managerImpl, the session router (src/ttsbot/session/manager.go).        *)
(* Every method runs under r.mu, so each is one step.  A Go map is a       *)
(* function whose domain is the set of keys present; reading a missing key *)
(* yields the zero value.                                                  *)
(***************************************************************************)
\* snowflake IDs of channels are positive; 0 is the zero value of snowflake.ID
NoChannel == 0

GuildIDs == {1}

VoiceChannelIDs == {1, 2}

ReadingChannelIDs == {1, 2}

\* the *Session values handed to Add
SessionPtrs == {"s1", "s2"}

Observers == {"o1", "o2"}

EmptyMap == [k \in {} |-> NoChannel]

\* m[k] of a Go map
MapGet(m, k) == IF k \in DOMAIN m THEN m[k] ELSE NoChannel

\* m[k] = v of a Go map
MapSet(m, k, v) == [x \in DOMAIN m \cup {k} |-> IF x = k THEN v ELSE m[x]]

\* delete(m, k) of a Go map
MapDelete(m, k) == [x \in DOMAIN m \ {k} |-> m[x]]

NoOp == [op |-> "none"]

InitRouter ==
    /\ rt_sessions = EmptyMap
    /\ rt_readingToVoice = EmptyMap
    /\ rt_voiceToReading = EmptyMap
    /\ rt_observers = <<>>
    /\ rt_notified = <<>>
    /\ rt_lastOp = NoOp

\* the calls `for _, observer := range r.observers` makes with one event
Notify(kind, guildID, voiceChannelID, readingChannelID) ==
    [i \in 1..Len(rt_observers) |->
        [observer |-> rt_observers[i], kind |-> kind, GuildID |-> guildID,
         VoiceChannelID |-> voiceChannelID,
         ReadingChannelID |-> readingChannelID]]

\* managerImpl.Add
RouterAdd(guildID, voiceChannelID, readingChannelID, session) ==
    /\ rt_sessions' = MapSet(rt_sessions, voiceChannelID, session)
    /\ rt_readingToVoice' = MapSet(rt_readingToVoice, readingChannelID, voiceChannelID)
    /\ rt_voiceToReading' = MapSet(rt_voiceToReading, voiceChannelID, readingChannelID)
    /\ rt_notified' = Notify("OnCreated", guildID, voiceChannelID, readingChannelID)
    /\ rt_lastOp' = [op |-> "Add", voice |-> voiceChannelID,
                     reading |-> readingChannelID,
                     present |-> voiceChannelID \in DOMAIN rt_sessions]
    /\ UNCHANGED rt_observers

\* the key Delete removes from readingToVoice
DeletedReadingKey_VoiceID(voiceChannelID) == voiceChannelID

DeletedReadingKey(voiceChannelID) == MapGet(rt_voiceToReading, voiceChannelID)

\* managerImpl.Delete
RouterDelete(guildID, voiceChannelID) ==
    LET readingChannelID == DeletedReadingKey(voiceChannelID) IN
    /\ rt_sessions' = MapDelete(rt_sessions, voiceChannelID)
    /\ rt_readingToVoice' = MapDelete(rt_readingToVoice, readingChannelID)
    /\ rt_voiceToReading' = MapDelete(rt_voiceToReading, voiceChannelID)
    /\ rt_notified' = Notify("OnDeleted", guildID, voiceChannelID, readingChannelID)
    /\ rt_lastOp' = [op |-> "Delete", voice |-> voiceChannelID,
                     reading |-> readingChannelID,
                     present |-> voiceChannelID \in DOMAIN rt_sessions]
    /\ UNCHANGED rt_observers

\* the nil *Session: what a read of a missing key of r.sessions yields
NilSession == "nil"

\* managerImpl.GetByReadingChannel: the session and ok it returns
GetByReadingChannel(readingChannelID) ==
    IF readingChannelID \in DOMAIN rt_readingToVoice
       THEN LET voiceChannelID == rt_readingToVoice[readingChannelID] IN
            [session |-> IF voiceChannelID \in DOMAIN rt_sessions
                            THEN rt_sessions[voiceChannelID]
                            ELSE NilSession,
             ok |-> TRUE]
       ELSE [session |-> NilSession, ok |-> FALSE]

\* managerImpl.AddObserver
AddObserver(observer) ==
    /\ Len(rt_observers) < MaxObservers
    /\ rt_observers' = Append(rt_observers, observer)
    /\ rt_lastOp' = [op |-> "AddObserver"]
    /\ UNCHANGED <<rt_sessions, rt_readingToVoice, rt_voiceToReading, rt_notified>>

\* lo.Reject(observers, o == observer)
RECURSIVE Reject(_, _)
Reject(list, observer) ==
    IF list = <<>> THEN <<>>
    ELSE IF Head(list) = observer THEN Reject(Tail(list), observer)
    ELSE <<Head(list)>> \o Reject(Tail(list), observer)

\* managerImpl.RemoveObserver
RemoveObserver(observer) ==
    /\ rt_observers' = Reject(rt_observers, observer)
    /\ rt_lastOp' = [op |-> "RemoveObserver"]
    /\ UNCHANGED <<rt_sessions, rt_readingToVoice, rt_voiceToReading, rt_notified>>

NextRouter ==
    \/ \E g \in GuildIDs, v \in VoiceChannelIDs, r \in ReadingChannelIDs,
          session \in SessionPtrs :
          RouterAdd(g, v, r, session) /\ UNCHANGED notRouter
    \/ \E g \in GuildIDs, v \in VoiceChannelIDs :
          RouterDelete(g, v) /\ UNCHANGED notRouter
    \/ \E o \in Observers : AddObserver(o) /\ UNCHANGED notRouter
    \/ \E o \in Observers : RemoveObserver(o) /\ UNCHANGED notRouter

(***************************************************************************)
(* CachedTTSEngine (src/unnamed/part_005).  The engine is shared by the    *)
(* session workers, which call GenerateSpeech concurrently; its hash field *)
(* is shared state.  A key is modelled by the sequence of values written   *)
(* to the hash between Reset and Sum.                                      *)
(***************************************************************************)
\* the session workers calling GenerateSpeech
Workers == {"w1", "w2"}

\* SpeechRequest values: LanguageCode, VoiceName, Text
Requests ==
    { [LanguageCode |-> "en", VoiceName |-> "v1", Text |-> "hello"],
      [LanguageCode |-> "en", VoiceName |-> "v2", Text |-> "hello"] }

\* the ttl values of the configuration, in hours
ConfiguredTTLs == {12, 24}

\* what the wrapped engine may render for one request
Takes == {"x", "y"}

EngineName == "google"

\* the key generateKey yields for a request when no other call interferes
KeyOf(request) ==
    <<EngineName, request.LanguageCode, request.VoiceName, request.Text>>

NoRequest == [LanguageCode |-> "", VoiceName |-> "", Text |-> ""]

NoAudio == <<>>

\* a call: its position, request and key; the outcome of its cache read;
\* the outcome of its call of the wrapped engine and the audio the engine
\* made; what the call returned
IdleCacheCall ==
    [pc |-> "idle", id |-> 0, request |-> NoRequest, key |-> <<>>,
     read |-> "none", engine |-> "none", made |-> NoAudio,
     res |-> "none", audio |-> NoAudio]

\* NewCachedTTSEngine: the struct it returns (nextEngine, redisCache and
\* hash are set; ttl keeps its zero value)
NewCachedTTSEngine(ttl) == [ttl |-> 0, hash |-> <<>>]

InitCache ==
    /\ ce_cfgTTL \in ConfiguredTTLs
    /\ ce_ttl = NewCachedTTSEngine(ce_cfgTTL).ttl
    /\ ce_hash = NewCachedTTSEngine(ce_cfgTTL).hash
    /\ ce_cache = [k \in {} |-> NoAudio]
    /\ ce_pending = {}
    /\ ce_call = [w \in Workers |-> IdleCacheCall]
    /\ ce_nextId = 1
    /\ ce_engineCalls = 0
    /\ ce_fault = FALSE

\* a session worker calls GenerateSpeech
GenerateSpeechBegin(w) ==
    /\ ce_call[w].pc = "idle"
    /\ ce_nextId <= MaxCalls
    /\ \E request \in Requests :
          ce_call' = [ce_call EXCEPT ![w] =
              [IdleCacheCall EXCEPT !.pc = "reset", !.id = ce_nextId,
                                    !.request = request]]
    /\ ce_nextId' = ce_nextId + 1
    /\ UNCHANGED <<ce_cfgTTL, ce_ttl, ce_hash, ce_cache, ce_pending,
                   ce_engineCalls, ce_fault>>

\* generateKey: c.hash.Reset()
KeyReset(w) ==
    /\ ce_call[w].pc = "reset"
    /\ ce_hash' = <<>>
    /\ ce_call' = [ce_call EXCEPT ![w].pc = "name"]
    /\ UNCHANGED <<ce_cfgTTL, ce_ttl, ce_cache, ce_pending, ce_nextId,
                   ce_engineCalls, ce_fault>>

\* the value each c.hash.Write of generateKey writes
KeyPart(pc, request) ==
    CASE pc = "name" -> EngineName
      [] pc = "language" -> request.LanguageCode
      [] pc = "voice" -> request.VoiceName
      [] pc = "text" -> request.Text

AfterKeyPart(pc) ==
    CASE pc = "name" -> "language"
      [] pc = "language" -> "voice"
      [] pc = "voice" -> "text"
      [] pc = "text" -> "sum"

\* generateKey: one c.hash.Write
KeyWrite(w) ==
    /\ ce_call[w].pc \in {"name", "language", "voice", "text"}
    /\ ce_hash' = Append(ce_hash, KeyPart(ce_call[w].pc, ce_call[w].request))
    /\ ce_call' = [ce_call EXCEPT ![w].pc = AfterKeyPart(ce_call[w].pc)]
    /\ UNCHANGED <<ce_cfgTTL, ce_ttl, ce_cache, ce_pending, ce_nextId,
                   ce_engineCalls, ce_fault>>

\* generateKey: hex.EncodeToString(c.hash.Sum(nil))
KeySum(w) ==
    /\ ce_call[w].pc = "sum"
    /\ ce_call' = [ce_call EXCEPT ![w].pc = "get", ![w].key = ce_hash]
    /\ ce_fault' = (ce_fault \/ ce_hash # KeyOf(ce_call[w].request))
    /\ UNCHANGED <<ce_cfgTTL, ce_ttl, ce_hash, ce_cache, ce_pending, ce_nextId,
                   ce_engineCalls>>

\* a GenerateSpeech that reads the entry and goes on to the wrapped engine
ReturnCached_FallsThrough(call, item) ==
    [call EXCEPT !.pc = "engine"]

\* GenerateSpeech after redisCache.Get returned err == nil: the cached
\* bytes are returned
ReturnCached(call, item) ==
    [call EXCEPT !.pc = "idle", !.res = "ok", !.audio = item.Value]

\* GenerateSpeech: redisCache.Get and the test of its error.  Get fails
\* when the key is absent, and may fail when redis cannot be read.
CacheGet(w) ==
    /\ ce_call[w].pc = "get"
    /\ \/ /\ ce_call[w].key \in DOMAIN ce_cache
          /\ ce_call' = [ce_call EXCEPT ![w] =
                ReturnCached([ce_call[w] EXCEPT !.read = "found"],
                             ce_cache[ce_call[w].key])]
          /\ UNCHANGED ce_fault
       \/ /\ ce_call[w].key \notin DOMAIN ce_cache
          /\ ce_call' = [ce_call EXCEPT ![w].pc = "engine", ![w].read = "absent"]
          /\ UNCHANGED ce_fault
       \/ /\ ce_call' = [ce_call EXCEPT ![w].pc = "engine", ![w].read = "failed"]
          /\ ce_fault' = TRUE
    /\ UNCHANGED <<ce_cfgTTL, ce_ttl, ce_hash, ce_cache, ce_pending, ce_nextId,
                   ce_engineCalls>>

\* the cache.Item the detached goroutine hands to redisCache.Set
CacheItem(key, audio, writer) ==
    [Key |-> key, Value |-> audio, TTL |-> ce_ttl, writer |-> writer]

\* a GenerateSpeech that stores the item before it returns and returns the
\* error of the store
AfterEngine_ReturnsSetError(call, audio) ==
    [spawned |-> {},
     call |-> [call EXCEPT !.pc = "idle", !.res = "error"]]

\* GenerateSpeech after the wrapped engine returned audio: the goroutines
\* started and the value returned
AfterEngine(call, audio) ==
    [spawned |-> {CacheItem(call.key, audio, call.id)},
     call |-> [call EXCEPT !.pc = "idle", !.res = "ok", !.audio = audio]]

\* GenerateSpeech: c.nextEngine.GenerateSpeech, then `go func` and return
EngineCall(w) ==
    /\ ce_call[w].pc = "engine"
    /\ ce_engineCalls' = ce_engineCalls + 1
    /\ \/ \E take \in Takes :
             LET audio == <<ce_call[w].request, take>>
                 after == AfterEngine([ce_call[w] EXCEPT !.engine = "ok",
                                                            !.made = audio], audio)
             IN /\ ce_pending' = ce_pending \cup after.spawned
                /\ ce_call' = [ce_call EXCEPT ![w] = after.call]
                /\ UNCHANGED ce_fault
       \/ /\ ce_call' = [ce_call EXCEPT ![w].pc = "idle", ![w].res = "error",
                                        ![w].engine = "error"]
          /\ ce_fault' = TRUE
          /\ UNCHANGED ce_pending
    /\ UNCHANGED <<ce_cfgTTL, ce_ttl, ce_hash, ce_cache, ce_nextId>>

\* the detached goroutine: redisCache.Set under its 3 s deadline stores the
\* item, or fails and is logged
CacheSet(item) ==
    /\ item \in ce_pending
    /\ ce_pending' = ce_pending \ {item}
    /\ \/ /\ ce_cache' = [k \in DOMAIN ce_cache \cup {item.Key} |->
                            IF k = item.Key
                               THEN [Value |-> item.Value, TTL |-> item.TTL,
                                     writer |-> item.writer]
                               ELSE ce_cache[k]]
          /\ UNCHANGED ce_fault
       \/ /\ ce_fault' = TRUE
          /\ UNCHANGED ce_cache
    /\ UNCHANGED <<ce_cfgTTL, ce_ttl, ce_hash, ce_call, ce_nextId,
                   ce_engineCalls>>

\* redis drops an entry whose time to live has passed
CacheExpire(key) ==
    /\ key \in DOMAIN ce_cache
    /\ ce_cache' = [k \in DOMAIN ce_cache \ {key} |-> ce_cache[k]]
    /\ ce_fault' = TRUE
    /\ UNCHANGED <<ce_cfgTTL, ce_ttl, ce_hash, ce_pending, ce_call, ce_nextId,
                   ce_engineCalls>>

NextCache ==
    \/ \E w \in Workers : GenerateSpeechBegin(w) /\ UNCHANGED notCache
    \/ \E w \in Workers : KeyReset(w) /\ UNCHANGED notCache
    \/ \E w \in Workers : KeyWrite(w) /\ UNCHANGED notCache
    \/ \E w \in Workers : KeySum(w) /\ UNCHANGED notCache
    \/ \E w \in Workers : CacheGet(w) /\ UNCHANGED notCache
    \/ \E w \in Workers : EngineCall(w) /\ UNCHANGED notCache
    \/ \E item \in ce_pending : CacheSet(item) /\ UNCHANGED notCache
    \/ \E key \in DOMAIN ce_cache : CacheExpire(key) /\ UNCHANGED notCache

(***************************************************************************)
(* Presets (src/ttsbot/preset): PresetRegistry with Preset.validate        *)
(* (preset_test.go:111-169), the preset ID repository over the table       *)
(* scoped_preset_ids (src/unnamed/part_014:102-200) and presetResolverImpl *)
(* (preset.go).  preset.go holds resolveID twice, at line 112 and at line  *)
(* 204; a build holds one of them, which pr_variant names.                 *)
(***************************************************************************)
ScopeGuild == "guild"

ScopeUser == "user"

Scopes == {ScopeGuild, ScopeUser}

\* the guilds and users that own a stored preset ID
OwnerIDs == {1}

\* the presets handed to Register
PresetValues ==
    { [Identifier |-> "", Engine |-> "google", Language |-> "en"],
      [Identifier |-> "A", Engine |-> "", Language |-> "en"],
      [Identifier |-> "A", Engine |-> "google", Language |-> "en"],
      [Identifier |-> "A", Engine |-> "google", Language |-> "ja"],
      [Identifier |-> "B", Engine |-> "google", Language |-> "en"],
      [Identifier |-> "C", Engine |-> "google", Language |-> "en"] }

\* the preset IDs handed to Save; no preset is ever registered as "X"
SavedPresetIDs == {"B", "C", "X"}

\* the fallback identifiers handed to NewPresetResolver
FallbackPresetIDs == {"A", "B"}

\* Preset{}
ZeroPreset == [Identifier |-> "", Engine |-> "", Language |-> ""]

NoError == "nil"

ErrNotFound == "preset ID not found"

\* an error of the database other than the absence of the row
ErrStore == "database error"

\* the nil resolver NewPresetResolver returns with an error
NoResolver == [fallbackPresetID |-> ""]

\* the entry of pr_written for a key no Save or Delete has succeeded on;
\* `replaced` tells that a Save found a row holding another preset_id
NeverWritten == [op |-> "none", presetID |-> "", replaced |-> FALSE]

InitPreset ==
    /\ pr_variant \in {1, 2}
    /\ pr_presets = [k \in {} |-> ZeroPreset]
    /\ pr_rows = [k \in {} |-> ""]
    /\ pr_written = [k \in Scopes \X OwnerIDs |-> NeverWritten]
    /\ pr_resolver = NoResolver
    /\ pr_last = [op |-> "none"]

\* Preset.validate
validate(p) ==
    IF p.Identifier = "" THEN "preset identifier cannot be empty"
    ELSE IF p.Engine = "" THEN "preset engine cannot be empty"
    ELSE NoError

\* a Register that does not look for the identifier in the map
RegisterError_NoDuplicateCheck(presets, preset) ==
    IF validate(preset) # NoError THEN "invalid preset" ELSE NoError

\* PresetRegistry.Register: the error it returns
RegisterError(presets, preset) ==
    IF validate(preset) # NoError THEN "invalid preset"
    ELSE IF preset.Identifier \in DOMAIN presets THEN "preset already registered"
    ELSE NoError

\* PresetRegistry.Register
Register(preset) ==
    LET err == RegisterError(pr_presets, preset) IN
    /\ pr_presets' =
          IF err = NoError
             THEN [k \in DOMAIN pr_presets \cup {preset.Identifier} |->
                      IF k = preset.Identifier THEN preset ELSE pr_presets[k]]
             ELSE pr_presets
    /\ pr_last' = [op |-> "Register", preset |-> preset, err |-> err]
    /\ UNCHANGED <<pr_variant, pr_rows, pr_written, pr_resolver>>

\* PresetRegistry.Get
Get(presets, identifier) ==
    IF identifier \in DOMAIN presets
       THEN [preset |-> presets[identifier], ok |-> TRUE]
       ELSE [preset |-> ZeroPreset, ok |-> FALSE]

\* a NewPresetResolver that does not look the fallback up
NewPresetResolverError_Unchecked(presets, fallbackPresetID) == NoError

\* NewPresetResolver: the error it returns
NewPresetResolverError(presets, fallbackPresetID) ==
    IF ~Get(presets, fallbackPresetID).ok
       THEN "fallback preset ID not found in registry"
       ELSE NoError

\* NewPresetResolver
NewPresetResolver(fallbackPresetID) ==
    LET err == NewPresetResolverError(pr_presets, fallbackPresetID) IN
    /\ pr_resolver' = IF err = NoError
                         THEN [fallbackPresetID |-> fallbackPresetID]
                         ELSE NoResolver
    /\ pr_last' = [op |-> "NewPresetResolver", fallback |-> fallbackPresetID,
                   err |-> err, present |-> fallbackPresetID \in DOMAIN pr_presets]
    /\ UNCHANGED <<pr_variant, pr_presets, pr_rows, pr_written>>

\* what presetIDRepositoryImpl.Find may return: the preset_id of the row,
\* ErrNotFound when there is no row, or the error of the database
FindOutcomes(rows, scope, id) ==
    { IF <<scope, id>> \in DOMAIN rows
         THEN [presetID |-> rows[<<scope, id>>], err |-> NoError]
         ELSE [presetID |-> "", err |-> ErrNotFound],
      [presetID |-> "", err |-> ErrStore] }

\* presetIDRepositoryImpl.Find
RepositoryFind(scope, id) ==
    /\ \E found \in FindOutcomes(pr_rows, scope, id) :
          pr_last' = [op |-> "Find", scope |-> scope, id |-> id,
                      presetID |-> found.presetID, err |-> found.err]
    /\ UNCHANGED <<pr_variant, pr_presets, pr_rows, pr_written, pr_resolver>>

\* an INSERT without the ON CONFLICT clause: the row that exists is kept
Upsert_InsertOnly(rows, key, presetID) ==
    IF key \in DOMAIN rows THEN rows
    ELSE [k \in DOMAIN rows \cup {key} |-> IF k = key THEN presetID ELSE rows[k]]

\* INSERT ... ON CONFLICT(scope, id) DO UPDATE SET preset_id = ?
Upsert(rows, key, presetID) ==
    [k \in DOMAIN rows \cup {key} |-> IF k = key THEN presetID ELSE rows[k]]

\* presetIDRepositoryImpl.Save
RepositorySave(scope, id, presetID) ==
    /\ \/ /\ pr_rows' = Upsert(pr_rows, <<scope, id>>, presetID)
          /\ pr_written' = [pr_written EXCEPT ![<<scope, id>>] =
                               [op |-> "Save", presetID |-> presetID,
                                replaced |-> /\ <<scope, id>> \in DOMAIN pr_rows
                                             /\ pr_rows[<<scope, id>>] # presetID]]
          /\ pr_last' = [op |-> "Save", scope |-> scope, id |-> id,
                         presetID |-> presetID, err |-> NoError]
       \/ /\ pr_last' = [op |-> "Save", scope |-> scope, id |-> id,
                         presetID |-> presetID, err |-> ErrStore]
          /\ UNCHANGED <<pr_rows, pr_written>>
    /\ UNCHANGED <<pr_variant, pr_presets, pr_resolver>>

\* presetIDRepositoryImpl.Delete
RepositoryDelete(scope, id) ==
    /\ \/ /\ pr_rows' = [k \in DOMAIN pr_rows \ {<<scope, id>>} |-> pr_rows[k]]
          /\ pr_written' = [pr_written EXCEPT ![<<scope, id>>] =
                               [op |-> "Delete", presetID |-> "",
                                replaced |-> FALSE]]
          /\ pr_last' = [op |-> "Delete", scope |-> scope, id |-> id,
                         err |-> NoError]
       \/ /\ pr_last' = [op |-> "Delete", scope |-> scope, id |-> id,
                         err |-> ErrStore]
          /\ UNCHANGED <<pr_rows, pr_written>>
    /\ UNCHANGED <<pr_variant, pr_presets, pr_resolver>>

\* presetResolverImpl.resolveID of preset.go:112-130, given what the Find of
\* the user scope returned and what the Find of the guild scope returns
resolveID(user, guild) ==
    IF user.err = NoError THEN [presetID |-> user.presetID, err |-> NoError]
    ELSE IF user.err # ErrNotFound THEN [presetID |-> "", err |-> user.err]
    ELSE IF guild.err = NoError THEN [presetID |-> guild.presetID, err |-> NoError]
    ELSE IF guild.err # ErrNotFound THEN [presetID |-> "", err |-> guild.err]
    ELSE [presetID |-> "", err |-> ErrNotFound]

\* presetResolverImpl.resolveID of preset.go:204-222
resolveIDSecond(user, guild) ==
    IF user.err = NoError THEN [presetID |-> user.presetID, err |-> NoError]
    ELSE IF user.err = ErrNotFound THEN [presetID |-> "", err |-> user.err]
    ELSE IF guild.err = NoError THEN [presetID |-> guild.presetID, err |-> NoError]
    ELSE IF guild.err = ErrNotFound THEN [presetID |-> "", err |-> guild.err]
    ELSE [presetID |-> "", err |-> ErrNotFound]

\* a Resolve that hands the error of the store on to its caller
AfterResolveID_ReturnsStoreError(resolved) ==
    LET presetID == IF resolved.err # NoError
                       THEN pr_resolver.fallbackPresetID
                       ELSE resolved.presetID
        got == Get(pr_presets, presetID)
    IN IF resolved.err \notin {NoError, ErrNotFound}
          THEN [preset |-> ZeroPreset, err |-> resolved.err]
       ELSE IF got.ok THEN [preset |-> got.preset, err |-> NoError]
       ELSE [preset |-> ZeroPreset, err |-> "preset not found for ID"]

\* Resolve and ResolveGuildPreset after the preset ID was looked up: the
\* fallback ID replaces a failed lookup, and the registry is read
AfterResolveID(resolved) ==
    LET presetID == IF resolved.err # NoError
                       THEN pr_resolver.fallbackPresetID
                       ELSE resolved.presetID
        got == Get(pr_presets, presetID)
    IN IF got.ok THEN [preset |-> got.preset, err |-> NoError]
       ELSE [preset |-> ZeroPreset, err |-> "preset not found for ID"]

\* whether resolveID makes the Find of the guild scope, given the error
\* the Find of the user scope returned
GuildConsulted(userErr) ==
    IF pr_variant = 1 THEN userErr = ErrNotFound ELSE userErr = ErrStore

\* presetResolverImpl.Resolve
Resolve(guildID, userID) ==
    /\ pr_resolver # NoResolver
    /\ \E user \in FindOutcomes(pr_rows, ScopeUser, userID),
          guild \in FindOutcomes(pr_rows, ScopeGuild, guildID) :
          LET resolved == IF pr_variant = 1 THEN resolveID(user, guild)
                          ELSE resolveIDSecond(user, guild)
              out == AfterResolveID(resolved)
          IN pr_last' = [op |-> "Resolve", guildID |-> guildID,
                         userID |-> userID, preset |-> out.preset,
                         err |-> out.err,
                         storeFailed |-> ErrStore \in {user.err, guild.err},
                         userErr |-> user.err,
                         guildErr |-> IF GuildConsulted(user.err)
                                         THEN guild.err ELSE "not called"]
    /\ UNCHANGED <<pr_variant, pr_presets, pr_rows, pr_written, pr_resolver>>

\* presetResolverImpl.ResolveGuildPreset
ResolveGuildPreset(guildID) ==
    /\ pr_resolver # NoResolver
    /\ \E guild \in FindOutcomes(pr_rows, ScopeGuild, guildID) :
          LET out == AfterResolveID(guild)
          IN pr_last' = [op |-> "ResolveGuildPreset", guildID |-> guildID,
                         preset |-> out.preset, err |-> out.err,
                         storeFailed |-> guild.err = ErrStore,
                         userErr |-> "not called", guildErr |-> guild.err]
    /\ UNCHANGED <<pr_variant, pr_presets, pr_rows, pr_written, pr_resolver>>

NextPreset ==
    \/ \E preset \in PresetValues : Register(preset) /\ UNCHANGED notPreset
    \/ \E fallback \in FallbackPresetIDs :
          NewPresetResolver(fallback) /\ UNCHANGED notPreset
    \/ \E scope \in Scopes, id \in OwnerIDs :
          RepositoryFind(scope, id) /\ UNCHANGED notPreset
    \/ \E scope \in Scopes, id \in OwnerIDs, presetID \in SavedPresetIDs :
          RepositorySave(scope, id, presetID) /\ UNCHANGED notPreset
    \/ \E scope \in Scopes, id \in OwnerIDs :
          RepositoryDelete(scope, id) /\ UNCHANGED notPreset
    \/ \E guildID \in OwnerIDs, userID \in OwnerIDs :
          Resolve(guildID, userID) /\ UNCHANGED notPreset
    \/ \E guildID \in OwnerIDs : ResolveGuildPreset(guildID) /\ UNCHANGED notPreset

(***************************************************************************)
(* The handler of voice-state updates: managerImpl.CreateVoiceStateHandler *)
(* and handleLeaveVoiceChannel (manager.go:163-205),                       *)
(* Session.onLeaveVoiceChannel and isVoiceChannelEmpty.  The source holds  *)
(* isVoiceChannelEmpty twice: with fetchUser, which asks the REST API for  *)
(* a user the member cache lacks (src/unnamed/part_010:329-377), and over  *)
(* the member cache alone (session.go:262-286); lv_variant names the one   *)
(* the build holds.  One session is followed, on voice channel             *)
(* SessionChannel.                                                         *)
(***************************************************************************)
UserIDs == {1, 2, 3}

\* the users whose discord.User has Bot set
Bots == {3}

\* VoiceState.ChannelID == nil
NoVoiceChannel == 0

VoiceChannels == {1, 2}

\* the voice channel the session is connected to
SessionChannel == 1

InitLeave ==
    /\ lv_variant \in {"fetchUser", "memberCache"}
    /\ lv_voiceStates = [u \in UserIDs |-> NoVoiceChannel]
    /\ lv_members = {}
    /\ lv_live = FALSE
    /\ lv_inRouter = FALSE
    /\ lv_last = [op |-> "none"]

\* fetchUser: the user is found when the member cache holds the member or
\* the request to the REST API succeeds
fetchUser(members, restFails, userID) ==
    userID \in members \/ userID \notin restFails

\* isVoiceChannelEmpty of part_010:329-363
isVoiceChannelEmpty(voiceStates, members, restFails, channelID, ignoredUserID) ==
    ~ \E userID \in DOMAIN voiceStates :
          /\ voiceStates[userID] # NoVoiceChannel
          /\ userID # ignoredUserID
          /\ fetchUser(members, restFails, userID)
          /\ userID \notin Bots
          /\ voiceStates[userID] = channelID

\* isVoiceChannelEmpty of session.go:262-286
isVoiceChannelEmptyCached(voiceStates, members, channelID, ignoredUserID) ==
    ~ \E userID \in DOMAIN voiceStates :
          /\ voiceStates[userID] # NoVoiceChannel
          /\ userID # ignoredUserID
          /\ ~(userID \in members /\ userID \in Bots)
          /\ voiceStates[userID] = channelID

\* the /join command: a session is created on SessionChannel and added to
\* the router
JoinCommand ==
    /\ ~lv_inRouter
    /\ lv_live' = TRUE
    /\ lv_inRouter' = TRUE
    /\ lv_last' = [op |-> "command"]
    /\ UNCHANGED <<lv_variant, lv_voiceStates, lv_members>>

\* a user enters a voice channel; the member cache may learn the member
JoinVoice(userID, channelID) ==
    /\ lv_voiceStates[userID] = NoVoiceChannel
    /\ lv_voiceStates' = [lv_voiceStates EXCEPT ![userID] = channelID]
    /\ lv_members' \in {lv_members, lv_members \cup {userID}}
    /\ lv_last' = [op |-> "join"]
    /\ UNCHANGED <<lv_variant, lv_live, lv_inRouter>>

\* the member cache drops a member
MemberEvict(userID) ==
    /\ userID \in lv_members
    /\ lv_members' = lv_members \ {userID}
    /\ lv_last' = [op |-> "evict"]
    /\ UNCHANGED <<lv_variant, lv_voiceStates, lv_live, lv_inRouter>>

\* Session.onLeaveVoiceChannel: LeaveResultClose or LeaveResultKeepAlive
onLeaveVoiceChannel(voiceStates, restFails, channelID, userID) ==
    LET empty == IF lv_variant = "fetchUser"
                    THEN isVoiceChannelEmpty(voiceStates, lv_members, restFails,
                                             channelID, userID)
                    ELSE isVoiceChannelEmptyCached(voiceStates, lv_members,
                                                   channelID, userID)
    IN IF empty THEN "LeaveResultClose" ELSE "LeaveResultKeepAlive"

\* a user leaves a voice channel, for none or for another one: the
\* listener of CreateVoiceStateHandler runs handleLeaveVoiceChannel, which
\* looks the session of the old channel up, asks it for the LeaveResult and
\* on LeaveResultClose closes it and deletes it from the router, whose
\* Delete calls OnDeleted on the observers
LeaveVoice(userID, newChannelID) ==
    LET oldChannelID == lv_voiceStates[userID]
        voiceStates == [lv_voiceStates EXCEPT ![userID] = newChannelID]
        found == lv_inRouter /\ oldChannelID = SessionChannel
    IN /\ oldChannelID # NoVoiceChannel
       /\ newChannelID # oldChannelID
       /\ lv_voiceStates' = voiceStates
       /\ \E restFails \in SUBSET (UserIDs \ lv_members) :
             LET result == IF found
                              THEN onLeaveVoiceChannel(voiceStates, restFails,
                                                       oldChannelID, userID)
                              ELSE "none"
                 close == result = "LeaveResultClose"
             IN /\ lv_live' = IF close THEN FALSE ELSE lv_live
                /\ lv_inRouter' = IF close THEN FALSE ELSE lv_inRouter
                /\ lv_last' = [op |-> "leave", userID |-> userID,
                               channelID |-> oldChannelID, found |-> found,
                               result |-> result, OnDeleted |-> close]
       /\ UNCHANGED <<lv_variant, lv_members>>

NextLeave ==
    \/ JoinCommand /\ UNCHANGED notLeave
    \/ \E userID \in UserIDs, channelID \in VoiceChannels :
          JoinVoice(userID, channelID) /\ UNCHANGED notLeave
    \/ \E userID \in UserIDs : MemberEvict(userID) /\ UNCHANGED notLeave
    \/ \E userID \in UserIDs, channelID \in VoiceChannels \cup {NoVoiceChannel} :
          LeaveVoice(userID, channelID) /\ UNCHANGED notLeave

(***************************************************************************)
(* managerImpl called from several goroutines (manager.go:86-153).  Every  *)
(* method locks managerImpl.mu and unlocks it by defer, when it returns.   *)
(* A call is a sequence of steps: Lock, the method body up to the loop     *)
(* over the observers, one step per observer call, two when the observer   *)
(* is the PersistenceManager, whose OnCreated and OnDeleted write to redis *)
(* (src/unnamed/part_009:85-121), and the return, which unlocks.           *)
(***************************************************************************)
Goroutines == {"g1", "g2"}

NoHolder == "none"

\* the observers that are a PersistenceManager; the others do nothing
PersistenceManagers == {"o1"}

\* the calls made on the router
RouterCalls ==
    [op : {"Add"}, GuildID : GuildIDs, VoiceChannelID : {1},
     ReadingChannelID : ReadingChannelIDs]
    \cup [op : {"Delete"}, GuildID : GuildIDs, VoiceChannelID : {1}]
    \cup [op : {"AddObserver", "RemoveObserver"}, observer : Observers]
    \cup [op : {"GetByVoiceChannel"}, VoiceChannelID : {1}]

NoCall == [op |-> "none"]

\* a call: its position; the slice `range r.observers` iterates and the
\* index in it; the event built; the observer calls made so far; and what
\* the observers and the reading channel were when the call took the lock
IdleRouterCall ==
    [pc |-> "idle", call |-> NoCall, range |-> <<>>, i |-> 0,
     ReadingChannelID |-> NoChannel, delivered |-> <<>>,
     observersAtLock |-> <<>>, readingAtLock |-> NoChannel]

InitLocked ==
    /\ rl_mu = NoHolder
    /\ rl_sessions = EmptyMap
    /\ rl_readingToVoice = EmptyMap
    /\ rl_voiceToReading = EmptyMap
    /\ rl_observers = <<>>
    /\ rl_call = [g \in Goroutines |-> IdleRouterCall]

\* a goroutine calls a method of the router
LockedCall(g, call) ==
    /\ rl_call[g].pc = "idle"
    /\ call.op = "AddObserver" =>
          Len(rl_observers) + Cardinality({h \in Goroutines :
              rl_call[h].pc # "idle" /\ rl_call[h].call.op = "AddObserver"})
          < MaxObservers
    /\ rl_call' = [rl_call EXCEPT ![g] =
                      [IdleRouterCall EXCEPT !.pc = "lock", !.call = call]]
    /\ UNCHANGED <<rl_mu, rl_sessions, rl_readingToVoice, rl_voiceToReading,
                   rl_observers>>

\* a Lock that does not wait for the mutex
MayLock_Unguarded(g) == TRUE

\* sync.Mutex.Lock returns when no goroutine holds the mutex
MayLock(g) == rl_mu = NoHolder

\* r.mu.Lock()
LockedLock(g) ==
    /\ rl_call[g].pc = "lock"
    /\ MayLock(g)
    /\ rl_mu' = g
    /\ rl_call' = [rl_call EXCEPT
          ![g].pc = "body",
          ![g].observersAtLock = rl_observers,
          ![g].readingAtLock =
              IF rl_call[g].call.op = "Delete"
                 THEN MapGet(rl_voiceToReading, rl_call[g].call.VoiceChannelID)
                 ELSE NoChannel]
    /\ UNCHANGED <<rl_sessions, rl_readingToVoice, rl_voiceToReading,
                   rl_observers>>

\* the event Add and Delete hand to the observers
SessionEvent(kind, call, readingChannelID) ==
    [kind |-> kind, GuildID |-> call.GuildID,
     VoiceChannelID |-> call.VoiceChannelID,
     ReadingChannelID |-> readingChannelID]

\* the body of the method, from the Lock to the loop over the observers or
\* to the return
LockedBody(g) ==
    LET call == rl_call[g].call IN
    /\ rl_call[g].pc = "body"
    /\ CASE call.op = "Add" ->
              /\ rl_sessions' = MapSet(rl_sessions, call.VoiceChannelID, "s1")
              /\ rl_readingToVoice' = MapSet(rl_readingToVoice,
                                             call.ReadingChannelID,
                                             call.VoiceChannelID)
              /\ rl_voiceToReading' = MapSet(rl_voiceToReading,
                                             call.VoiceChannelID,
                                             call.ReadingChannelID)
              /\ rl_call' = [rl_call EXCEPT
                    ![g].pc = "notify", ![g].range = rl_observers, ![g].i = 1,
                    ![g].ReadingChannelID = call.ReadingChannelID]
              /\ UNCHANGED rl_observers
         [] call.op = "Delete" ->
              LET readingChannelID ==
                      MapGet(rl_voiceToReading, call.VoiceChannelID) IN
              /\ rl_sessions' = MapDelete(rl_sessions, call.VoiceChannelID)
              /\ rl_readingToVoice' = MapDelete(rl_readingToVoice, readingChannelID)
              /\ rl_voiceToReading' = MapDelete(rl_voiceToReading,
                                                call.VoiceChannelID)
              /\ rl_call' = [rl_call EXCEPT
                    ![g].pc = "notify", ![g].range = rl_observers, ![g].i = 1,
                    ![g].ReadingChannelID = readingChannelID]
              /\ UNCHANGED rl_observers
         [] call.op = "AddObserver" ->
              /\ rl_observers' = Append(rl_observers, call.observer)
              /\ rl_call' = [rl_call EXCEPT ![g].pc = "return"]
              /\ UNCHANGED <<rl_sessions, rl_readingToVoice, rl_voiceToReading>>
         [] call.op = "RemoveObserver" ->
              /\ rl_observers' = Reject(rl_observers, call.observer)
              /\ rl_call' = [rl_call EXCEPT ![g].pc = "return"]
              /\ UNCHANGED <<rl_sessions, rl_readingToVoice, rl_voiceToReading>>
         [] call.op = "GetByVoiceChannel" ->
              /\ rl_call' = [rl_call EXCEPT ![g].pc = "return"]
              /\ UNCHANGED <<rl_sessions, rl_readingToVoice, rl_voiceToReading,
                             rl_observers>>
    /\ UNCHANGED rl_mu

\* one turn of `for _, observer := range r.observers`: observer.OnCreated or
\* observer.OnDeleted is called; the PersistenceManager goes on to write to
\* redis, any other observer returns at once
LockedNotify(g) ==
    LET c == rl_call[g]
        observer == c.range[c.i]
        kind == IF c.call.op = "Add" THEN "OnCreated" ELSE "OnDeleted"
    IN /\ c.pc = "notify"
       /\ c.i <= Len(c.range)
       /\ rl_call' = [rl_call EXCEPT
             ![g].delivered =
                 Append(c.delivered,
                        [observer |-> observer,
                         event |-> SessionEvent(kind, c.call, c.ReadingChannelID)]),
             ![g].pc = IF observer \in PersistenceManagers
                          THEN "store" ELSE "notify",
             ![g].i = IF observer \in PersistenceManagers THEN c.i ELSE c.i + 1]
       /\ UNCHANGED <<rl_mu, rl_sessions, rl_readingToVoice, rl_voiceToReading,
                      rl_observers>>

\* redisClient.Set or redisClient.Del of the PersistenceManager returns,
\* done, failed or timed out after 5 s, and the observer returns
LockedStoreDone(g) ==
    /\ rl_call[g].pc = "store"
    /\ rl_call' = [rl_call EXCEPT ![g].pc = "notify", ![g].i = rl_call[g].i + 1]
    /\ UNCHANGED <<rl_mu, rl_sessions, rl_readingToVoice, rl_voiceToReading,
                   rl_observers>>

\* the method returns and the deferred r.mu.Unlock() runs
LockedReturn(g) ==
    /\ \/ rl_call[g].pc = "return"
       \/ rl_call[g].pc = "notify" /\ rl_call[g].i > Len(rl_call[g].range)
    /\ rl_mu' = NoHolder
    /\ rl_call' = [rl_call EXCEPT ![g].pc = "idle", ![g].range = <<>>,
                                   ![g].i = 0]
    /\ UNCHANGED <<rl_sessions, rl_readingToVoice, rl_voiceToReading,
                   rl_observers>>

NextLocked ==
    \/ \E g \in Goroutines, call \in RouterCalls :
          LockedCall(g, call) /\ UNCHANGED notLocked
    \/ \E g \in Goroutines : LockedLock(g) /\ UNCHANGED notLocked
    \/ \E g \in Goroutines : LockedBody(g) /\ UNCHANGED notLocked
    \/ \E g \in Goroutines : LockedNotify(g) /\ UNCHANGED notLocked
    \/ \E g \in Goroutines : LockedStoreDone(g) /\ UNCHANGED notLocked
    \/ \E g \in Goroutines : LockedReturn(g) /\ UNCHANGED notLocked

(***************************************************************************)
(* PersistenceManager (src/unnamed/part_009; ttsbot/session/persistence.go *)
(* holds an earlier form with the namespace in the key only).  The store   *)
(* is redis: an entry written with a TTL is gone once the TTL has passed.  *)
(* Time is counted in heartbeat intervals.  The process can                *)
(* crash at any moment and be started again, which runs Restore.  Time is  *)
(* kept as what is left of it: of a TTL, of the wait for the next tick.    *)
(***************************************************************************)
\* heartbeatInterval of createSessionRestorationListener (30 s) is the unit of time
HeartbeatInterval == 1

\* the application ID of this instance and of another instance on the store
ApplicationID == 1
OtherApplicationID == 2
NoApplication == 0

PersistGuild == 1
PersistVoiceChannels == {1, 2}
\* the reading channels a session of the voice channel is created with
PersistReadingChannels(voiceChannelID) ==
    IF voiceChannelID = 1 THEN {1, 2} ELSE {2}

\* sessionID.generateKey
generateKey(applicationID, voiceChannelID) ==
    <<"session", applicationID, voiceChannelID>>

\* the keys that match the pattern session:* in the store
StoreKeys ==
    {generateKey(ApplicationID, v) : v \in PersistVoiceChannels}
        \cup {generateKey(OtherApplicationID, 1)}

KeyApplication(key) == key[2]

\* the value OnCreated (part_009:91-96) and Save (persistence.go:94-98)
\* store: only the first embeds the application ID
persistentSession(applicationID, guildID, voiceChannelID, readingChannelID) ==
    [applicationID |-> IF pm_variant = "applicationID"
                          THEN applicationID ELSE NoApplication,
     guildID |-> guildID,
     voiceChannelID |-> voiceChannelID,
     readingChannelID |-> readingChannelID]

NoSession ==
    [applicationID |-> NoApplication, guildID |-> 0,
     voiceChannelID |-> NoChannel, readingChannelID |-> NoChannel]

NoEntry == [ttl |-> 0]

NoGoroutine == [st |-> "none", session |-> NoSession]

\* a lease of one heartbeat interval
ttl_OneInterval == HeartbeatInterval

\* PersistenceManager.ttl
ttl == HeartbeatInterval * 3

\* redisClient.Set(ctx, key, &session, ttl) that succeeded
RedisSet(store, key, session) ==
    [store EXCEPT ![key] = [value |-> session,
                            ttl |-> ttl]]

\* the keys the store holds
PresentKeys == {key \in StoreKeys : pm_store[key] # NoEntry}

\* the voice channels of persistentSessions
Tracked == {v \in PersistVoiceChannels : pm_persistentSessions[v] # NoSession}

IdleBeat(untilTick) ==
    [pc |-> "wait", untilTick |-> untilTick, visited |-> {}, session |-> NoSession]

\* a call of Restore over the keys the store holds
NewRestore(keys) ==
    [pc |-> "scan", left |-> keys, keys |-> {}, cursor |-> 0, ctx |-> "live"]

NewScan(keys) == keys

\* the memory of a process that has just started
EmptyRouter == [v \in PersistVoiceChannels |-> NoChannel]

EmptyPersistentSessions == [v \in PersistVoiceChannels |-> NoSession]

NothingWritten == [v \in PersistVoiceChannels |-> "none"]

NoGoroutines == [key \in StoreKeys |-> NoGoroutine]

InitPersist ==
    /\ pm_variant \in {"applicationID", "identifier"}
    /\ pm_proc = [state |-> "running", sinceCrash |-> 0, epoch |-> 0,
                  late |-> FALSE]
    /\ pm_store = [key \in StoreKeys |-> NoEntry]
    /\ pm_sessions = EmptyRouter
    /\ pm_persistentSessions = EmptyPersistentSessions
    /\ pm_lastWrite = NothingWritten
    /\ pm_go = NoGoroutines
    /\ pm_beat = IdleBeat(HeartbeatInterval)
    /\ pm_restore = NewRestore({})
    /\ pm_scan = NewScan({})

\* PersistenceManager.OnCreated: the map entry, then the write, which may fail
OnCreated(voiceChannelID, readingChannelID, written) ==
    LET session == persistentSession(ApplicationID, PersistGuild,
                                     voiceChannelID, readingChannelID)
    IN /\ pm_persistentSessions' =
             [pm_persistentSessions EXCEPT ![voiceChannelID] = session]
       /\ pm_store' = IF written
                         THEN RedisSet(pm_store,
                                  generateKey(ApplicationID, voiceChannelID), session)
                         ELSE pm_store
       /\ pm_lastWrite' = [pm_lastWrite EXCEPT ![voiceChannelID] =
                               IF written THEN "ok" ELSE "failed"]

\* managerImpl.Add with the persistence manager as its observer
PersistAdd(voiceChannelID, readingChannelID, written) ==
    /\ pm_sessions' = [pm_sessions EXCEPT ![voiceChannelID] = readingChannelID]
    /\ OnCreated(voiceChannelID, readingChannelID, written)

\* the users' commands are those of the first run of the process
CommandsArrive == pm_proc.epoch = 0

\* a user has the bot join a voice channel: Add of a new session
JoinSession(voiceChannelID, readingChannelID) ==
    /\ pm_proc.state = "running"
    /\ CommandsArrive
    /\ \E written \in BOOLEAN :
          PersistAdd(voiceChannelID, readingChannelID, written)
    /\ UNCHANGED <<pm_variant, pm_proc, pm_beat, pm_restore, pm_go,
                   pm_scan>>

\* a session is closed: managerImpl.Delete, PersistenceManager.OnDeleted
LeaveSession(voiceChannelID) ==
    /\ pm_proc.state = "running"
    /\ CommandsArrive
    /\ pm_sessions[voiceChannelID] # NoChannel
    /\ pm_sessions' = [pm_sessions EXCEPT ![voiceChannelID] = NoChannel]
    /\ pm_persistentSessions' =
          [pm_persistentSessions EXCEPT ![voiceChannelID] = NoSession]
    /\ pm_lastWrite' = [pm_lastWrite EXCEPT ![voiceChannelID] = "none"]
    /\ \E deleted \in BOOLEAN :
          LET key == generateKey(ApplicationID, voiceChannelID) IN
          IF deleted
             THEN /\ pm_store' = [pm_store EXCEPT ![key] = NoEntry]
                  /\ pm_scan' = pm_scan \ {key}
             ELSE UNCHANGED <<pm_store, pm_scan>>
    /\ UNCHANGED <<pm_variant, pm_proc, pm_beat, pm_restore, pm_go>>

\* the other instance writes the record of its session; its heartbeat keeps
\* the lease of the record from running out
OtherInstanceWrite ==
    /\ pm_store' = RedisSet(pm_store, generateKey(OtherApplicationID, 1),
                       persistentSession(OtherApplicationID, PersistGuild, 1, 2))
    /\ pm_store' # pm_store
    /\ UNCHANGED <<pm_variant, pm_proc, pm_sessions,
                   pm_persistentSessions, pm_lastWrite, pm_beat, pm_restore,
                   pm_go, pm_scan>>

\* time passes: the ticker's tick is not missed by a running process, the
\* TTL of every entry runs down and the entries whose TTL has passed leave
\* the store
Tick ==
    /\ IF pm_proc.state = "running"
          THEN /\ pm_beat.pc = "wait"
               /\ pm_beat.untilTick > 0
               /\ pm_beat' = [pm_beat EXCEPT !.untilTick = @ - 1]
               /\ UNCHANGED pm_proc
          ELSE /\ pm_proc.sinceCrash < ttl
               /\ pm_proc' = [pm_proc EXCEPT !.sinceCrash = @ + 1]
               /\ UNCHANGED pm_beat
    /\ LET expired == {key \in PresentKeys :
                          /\ KeyApplication(key) = ApplicationID
                          /\ pm_store[key].ttl = 1} IN
       /\ pm_store' = [key \in StoreKeys |->
                          IF key \in expired
                             THEN NoEntry
                             ELSE IF key \in PresentKeys
                                       /\ KeyApplication(key) = ApplicationID
                                     THEN [pm_store[key] EXCEPT !.ttl = @ - 1]
                                     ELSE pm_store[key]]
       /\ pm_scan' = pm_scan \ expired
    /\ UNCHANGED <<pm_variant, pm_sessions, pm_persistentSessions,
                   pm_lastWrite, pm_restore, pm_go>>

\* a range that leaves out the sessions whose record the store does not hold
RangeTargets_OnlyStored ==
    {v \in Tracked : generateKey(ApplicationID, v) \in PresentKeys}

\* the entries the range over persistentSessions produces
RangeTargets == Tracked

\* for range ticker.C
HeartbeatTick ==
    /\ pm_proc.state = "running"
    /\ pm_beat.pc = "wait"
    /\ pm_beat.untilTick = 0
    /\ pm_beat' = [pc |-> "range", untilTick |-> HeartbeatInterval,
                   visited |-> {}, session |-> NoSession]
    /\ UNCHANGED <<pm_variant, pm_proc, pm_store, pm_sessions,
                   pm_persistentSessions, pm_lastWrite, pm_restore, pm_go,
                   pm_scan>>

\* for key, session := range p.persistentSessions: the range hands the
\* goroutine a copy of the next entry
HeartbeatRead(v) ==
    /\ pm_proc.state = "running"
    /\ pm_beat.pc = "range"
    /\ pm_beat.session = NoSession
    /\ v \in RangeTargets \ pm_beat.visited
    /\ pm_beat' = [pm_beat EXCEPT !.visited = @ \cup {v},
                                  !.session = pm_persistentSessions[v]]
    /\ UNCHANGED <<pm_variant, pm_proc, pm_store, pm_sessions,
                   pm_persistentSessions, pm_lastWrite, pm_restore, pm_go,
                   pm_scan>>

\* the body of the range: redisClient.Set of the copy under the entry's
\* key, which may fail (continue)
HeartbeatSet(v) ==
    /\ pm_proc.state = "running"
    /\ pm_beat.pc = "range"
    /\ pm_beat.session # NoSession
    /\ pm_beat.session.voiceChannelID = v
    /\ pm_beat' = [pm_beat EXCEPT !.session = NoSession]
    /\ \E written \in BOOLEAN :
          /\ pm_store' = IF written
                            THEN RedisSet(pm_store, generateKey(ApplicationID, v),
                                          pm_beat.session)
                            ELSE pm_store
          /\ pm_lastWrite' = IF v \in Tracked
                                THEN [pm_lastWrite EXCEPT ![v] =
                                         IF written THEN "ok" ELSE "failed"]
                                ELSE pm_lastWrite
    /\ UNCHANGED <<pm_variant, pm_proc, pm_sessions, pm_persistentSessions,
                   pm_restore, pm_go, pm_scan>>

\* the range is over: the goroutine waits for the next tick
HeartbeatRangeDone ==
    /\ pm_proc.state = "running"
    /\ pm_beat.pc = "range"
    /\ pm_beat.session = NoSession
    /\ RangeTargets \subseteq pm_beat.visited
    /\ pm_beat' = IdleBeat(pm_beat.untilTick)
    /\ UNCHANGED <<pm_variant, pm_proc, pm_store, pm_sessions,
                   pm_persistentSessions, pm_lastWrite, pm_restore, pm_go,
                   pm_scan>>

\* the process stops: its memory and its goroutines are gone
Crash ==
    /\ pm_proc.state = "running"
    /\ pm_proc' = [pm_proc EXCEPT !.state = "crashed", !.sinceCrash = 0]
    /\ pm_sessions' = EmptyRouter
    /\ pm_persistentSessions' = EmptyPersistentSessions
    /\ pm_lastWrite' = NothingWritten
    /\ pm_go' = NoGoroutines
    /\ pm_beat' = IdleBeat(0)
    /\ pm_restore' = [NewRestore({}) EXCEPT !.pc = "done"]
    /\ pm_scan' = NewScan({})
    /\ UNCHANGED <<pm_variant, pm_store>>

\* the process starts again: createSessionRestorationListener starts the
\* heartbeat, registers the observer and calls Restore
Restart ==
    /\ pm_proc.state = "crashed"
    /\ pm_proc.epoch < MaxRestarts
    /\ pm_proc' = [pm_proc EXCEPT !.state = "running", !.epoch = @ + 1,
                                  !.late = pm_proc.sinceCrash >= ttl]
    /\ pm_beat' = IdleBeat(HeartbeatInterval)
    /\ pm_restore' = NewRestore(PresentKeys)
    /\ pm_scan' = NewScan(PresentKeys)
    /\ UNCHANGED <<pm_variant, pm_store, pm_sessions,
                   pm_persistentSessions, pm_lastWrite, pm_go>>

\* redisClient.Scan(ctx, cursor, "session:*", 100): an error (the context of
\* Restore has expired, or the store fails) ends Restore; otherwise the
\* store returns some of the keys not yet returned, none included, and a
\* cursor that is zero only with the last of them.  A page without keys
\* ends Restore.
RestoreScan ==
    /\ pm_proc.state = "running"
    /\ pm_restore.pc = "scan"
    /\ \/ pm_restore' = [pm_restore EXCEPT !.pc = "failed"]
       \/ /\ pm_restore.ctx = "live"
          /\ LET left == pm_restore.left \cap PresentKeys IN
             \E page \in SUBSET left, more \in BOOLEAN :
                /\ ~more => page = left
                /\ pm_restore' =
                      [pm_restore EXCEPT
                          !.pc = IF page = {} THEN "done" ELSE "keys",
                          !.left = @ \ page,
                          !.keys = page,
                          !.cursor = IF more THEN 1 ELSE 0]
    /\ UNCHANGED <<pm_variant, pm_proc, pm_store, pm_sessions,
                   pm_persistentSessions, pm_lastWrite, pm_beat, pm_go, pm_scan>>

\* session.applicationID != p.applicationID (part_009:164); Restore of
\* persistence.go:150-187 has no such check
OwnRecord(session) ==
    pm_variant = "applicationID" => session.applicationID = ApplicationID

\* the body of the loop over the keys of a page: the read of the record,
\* which may fail (the record is gone, the store fails, the context of
\* Restore expires during the read or has expired), and the goroutine
\* started for a record that was read
RestoreGet(key) ==
    /\ pm_proc.state = "running"
    /\ pm_restore.pc = "keys"
    /\ key \in pm_restore.keys
    /\ \/ /\ pm_restore.ctx = "live"
          /\ pm_store[key] # NoEntry
          /\ pm_restore' = [pm_restore EXCEPT !.keys = @ \ {key}]
          /\ pm_go' = [pm_go EXCEPT ![key] =
                          IF OwnRecord(pm_store[key].value)
                             THEN [st |-> "running", session |-> pm_store[key].value]
                             ELSE [st |-> "skipped", session |-> NoSession]]
       \/ /\ \E ctx \in {pm_restore.ctx, "expired"} :
                pm_restore' = [pm_restore EXCEPT !.keys = @ \ {key}, !.ctx = ctx]
          /\ pm_go' = [pm_go EXCEPT ![key] =
                          [st |-> "unread", session |-> NoSession]]
    /\ UNCHANGED <<pm_variant, pm_proc, pm_store, pm_sessions,
                   pm_persistentSessions, pm_lastWrite, pm_beat, pm_scan>>

\* cursor = nextCursor; done = cursor == 0
RestorePageDone ==
    /\ pm_proc.state = "running"
    /\ pm_restore.pc = "keys"
    /\ pm_restore.keys = {}
    /\ pm_restore' = [pm_restore EXCEPT
                         !.pc = IF pm_restore.cursor = 0 THEN "done" ELSE "scan"]
    /\ UNCHANGED <<pm_variant, pm_proc, pm_store, pm_sessions,
                   pm_persistentSessions, pm_lastWrite, pm_beat, pm_go, pm_scan>>

\* the goroutine of Restore: sessionRestoreFunc returns a session, which
\* the goroutine adds to the router, or returns an error, or is found
\* never to return
GoRestore(key) ==
    /\ pm_proc.state = "running"
    /\ pm_go[key].st = "running"
    /\ \/ /\ pm_go' = [pm_go EXCEPT ![key].st = "added"]
          /\ \E written \in BOOLEAN :
                PersistAdd(pm_go[key].session.voiceChannelID,
                           pm_go[key].session.readingChannelID, written)
       \/ /\ \E st \in {"failed", "blocked"} :
                pm_go' = [pm_go EXCEPT ![key].st = st]
          /\ UNCHANGED <<pm_store, pm_sessions, pm_persistentSessions,
                         pm_lastWrite>>
    /\ UNCHANGED <<pm_variant, pm_proc, pm_beat, pm_restore, pm_scan>>

NextPersist ==
    \/ \E v \in PersistVoiceChannels : \E r \in PersistReadingChannels(v) :
          JoinSession(v, r) /\ UNCHANGED notPersist
    \/ \E v \in PersistVoiceChannels : LeaveSession(v) /\ UNCHANGED notPersist
    \/ OtherInstanceWrite /\ UNCHANGED notPersist
    \/ Tick /\ UNCHANGED notPersist
    \/ HeartbeatTick /\ UNCHANGED notPersist
    \/ \E v \in PersistVoiceChannels : HeartbeatRead(v) /\ UNCHANGED notPersist
    \/ \E v \in PersistVoiceChannels : HeartbeatSet(v) /\ UNCHANGED notPersist
    \/ HeartbeatRangeDone /\ UNCHANGED notPersist
    \/ Crash /\ UNCHANGED notPersist
    \/ Restart /\ UNCHANGED notPersist
    \/ RestoreScan /\ UNCHANGED notPersist
    \/ \E key \in StoreKeys : RestoreGet(key) /\ UNCHANGED notPersist
    \/ RestorePageDone /\ UNCHANGED notPersist
    \/ \E key \in StoreKeys : GoRestore(key) /\ UNCHANGED notPersist

(***************************************************************************)
(* The encoding of a persisted session record: MarshalBinary and           *)
(* UnmarshalBinary of persistentSession (src/unnamed/part_009:54-74 with   *)
(* the application ID in the record, ttsbot/session/persistence.go:60-77   *)
(* without).  A snowflake.ID is a uint64; it is written here as its four   *)
(* 16-bit words, most significant first, so that every 64-bit value has a  *)
(* representation.                                                         *)
(***************************************************************************)
ByteBase == 256

\* the identifiers the records are made of: zero, a value whose eight bytes
\* all differ, and a value with every high bit set
Snowflakes == { <<0, 0, 0, 0>>, <<258, 772, 1286, 1800>>,
                <<65535, 65535, 65535, 65534>> }

ZeroSnowflake == <<0, 0, 0, 0>>

CodecVariants == {"applicationID", "identifier"}

\* the fields of persistentSession in the order of the struct
Fields(variant) ==
    IF variant = "applicationID"
       THEN <<"applicationID", "guildID", "voiceChannelID", "readingChannelID">>
       ELSE <<"guildID", "voiceChannelID", "readingChannelID">>

FieldSet(variant) == {Fields(variant)[i] : i \in 1..Len(Fields(variant))}

Records(variant) == [FieldSet(variant) -> Snowflakes]

ZeroRecord(variant) == [field \in FieldSet(variant) |-> ZeroSnowflake]

\* a byte order that puts the least significant byte first
PutUint64_LittleEndian(v) ==
    << v[4] % ByteBase, v[4] \div ByteBase, v[3] % ByteBase, v[3] \div ByteBase,
       v[2] % ByteBase, v[2] \div ByteBase, v[1] % ByteBase, v[1] \div ByteBase >>

\* binary.BigEndian.PutUint64: b[0] = byte(v >> 56), ..., b[7] = byte(v)
PutUint64(v) ==
    << v[1] \div ByteBase, v[1] % ByteBase, v[2] \div ByteBase, v[2] % ByteBase,
       v[3] \div ByteBase, v[3] % ByteBase, v[4] \div ByteBase, v[4] % ByteBase >>

\* binary.BigEndian.Uint64: uint64(b[7]) | uint64(b[6])<<8 | ... | uint64(b[0])<<56
Uint64(b) ==
    << b[1] * ByteBase + b[2], b[3] * ByteBase + b[4],
       b[5] * ByteBase + b[6], b[7] * ByteBase + b[8] >>

\* make([]byte, 8+8+8+8), or 8+8+8
EncodedLen(variant) == 8 * Len(Fields(variant))

\* data[first:last] of Go: the bytes at the offsets first .. last-1
Slice(data, first, last) == SubSeq(data, first + 1, last)

RECURSIVE PutFields(_, _, _)
PutFields(variant, session, n) ==
    IF n = 0 THEN <<>>
    ELSE PutFields(variant, session, n - 1) \o PutUint64(session[Fields(variant)[n]])

\* persistentSession.MarshalBinary
MarshalBinary(variant, session) ==
    PutFields(variant, session, Len(Fields(variant)))

\* persistentSession.UnmarshalBinary on the record target: the error it
\* returns and the record afterwards
UnmarshalBinary(variant, data, target) ==
    IF Len(data) # EncodedLen(variant)
       THEN [err |-> "invalid data length", session |-> target]
       ELSE [err |-> "nil",
             session |->
                [field \in FieldSet(variant) |->
                    LET n == CHOOSE i \in 1..Len(Fields(variant)) :
                                 Fields(variant)[i] = field
                    IN Uint64(Slice(data, 8 * (n - 1), 8 * n))]]

\* the values of another length that a read of the key can hand back: a
\* record another build wrote with the other layout, and a value cut short
OtherLengths(data) ==
    { data \o PutUint64(ZeroSnowflake), Slice(data, 8, Len(data)),
      Slice(data, 0, Len(data) - 1), <<>> }

InitCodec ==
    /\ cd_variant \in CodecVariants
    /\ cd_session \in Records(cd_variant)
    /\ cd_before \in { ZeroRecord(cd_variant),
                       [field \in FieldSet(cd_variant) |-> <<258, 772, 1286, 1800>>] }
    /\ cd_target = cd_before
    /\ cd_data = <<>>
    /\ cd_err = "none"
    /\ cd_pc = "new"

\* OnCreated and the heartbeat: Set(ctx, key, &session, ttl) calls
\* MarshalBinary and stores the bytes
CodecMarshal ==
    /\ cd_pc = "new"
    /\ cd_data' = MarshalBinary(cd_variant, cd_session)
    /\ cd_pc' = "stored"
    /\ UNCHANGED <<cd_variant, cd_session, cd_before, cd_target, cd_err>>

\* Restore: Get(ctx, key) hands back the bytes stored, or a value of
\* another length
CodecGet ==
    /\ cd_pc = "stored"
    /\ cd_data' \in {cd_data} \cup OtherLengths(cd_data)
    /\ cd_pc' = "fetched"
    /\ UNCHANGED <<cd_variant, cd_session, cd_before, cd_target, cd_err>>

\* Restore: Scan(&session) calls UnmarshalBinary
CodecUnmarshal ==
    /\ cd_pc = "fetched"
    /\ LET result == UnmarshalBinary(cd_variant, cd_data, cd_target)
       IN /\ cd_target' = result.session
          /\ cd_err' = result.err
    /\ cd_pc' = "done"
    /\ UNCHANGED <<cd_variant, cd_session, cd_data, cd_before>>

NextCodec ==
    \/ CodecMarshal /\ UNCHANGED notCodec
    \/ CodecGet /\ UNCHANGED notCodec
    \/ CodecUnmarshal /\ UNCHANGED notCodec

Init ==
    /\ InitWorker /\ InitSession /\ InitRouter /\ InitCache /\ InitPreset
    /\ InitLeave /\ InitLocked /\ InitPersist /\ InitCodec

\* A specification runs one component; the components it does not run stay
\* in one initial state, which the following predicates pick.
RestCache == ce_cfgTTL = 24

RestPreset == pr_variant = 1

RestLeave == lv_variant = "fetchUser"

RestPersist == pm_variant = "applicationID"

RestCodec ==
    /\ cd_variant = "applicationID"
    /\ cd_session = ZeroRecord(cd_variant)
    /\ cd_before = ZeroRecord(cd_variant)

\* every component but the one a specification runs is at rest
InitAtRest == Init /\ RestCache /\ RestPreset /\ RestLeave /\ RestPersist /\ RestCodec

InitForCache == Init /\ RestPreset /\ RestLeave /\ RestPersist /\ RestCodec

InitForPreset == Init /\ RestCache /\ RestLeave /\ RestPersist /\ RestCodec

InitForLeave == Init /\ RestCache /\ RestPreset /\ RestPersist /\ RestCodec

InitForPersist == Init /\ RestCache /\ RestPreset /\ RestLeave /\ RestCodec

InitForCodec == Init /\ RestCache /\ RestPreset /\ RestLeave /\ RestPersist

SpecWorker == InitAtRest /\ [][NextWorker]_vars

SpecSession == InitAtRest /\ [][NextSession]_vars

\* The audio player reports the end of a track whenever the provider it
\* holds has no frame left, and every track is finite, so while the voice
\* connection is open OnEnd, and with it next(), is called again and again.
FairSession == WF_vars(SessionTrackNext /\ ~ss_connClosed /\ UNCHANGED notSession)

FairSpecSession == InitAtRest /\ [][NextSession]_vars /\ FairSession

SpecRouter == InitAtRest /\ [][NextRouter]_vars

SpecCache == InitForCache /\ [][NextCache]_vars

SpecPreset == InitForPreset /\ [][NextPreset]_vars

SpecLeave == InitForLeave /\ [][NextLeave]_vars

SpecLocked == InitAtRest /\ [][NextLocked]_vars

SpecPersist == InitForPersist /\ [][NextPersist]_vars

SpecCodec == InitForCodec /\ [][NextCodec]_vars

(***************************************************************************)
(* Properties of audioWorkerImpl.                                          *)
(***************************************************************************)

\* C1: the tasks EnqueueTask accepted are received by workerLoop exactly once
\* and in the order of their acceptance: at every moment the accepted tasks
\* are the tasks received so far, in order, followed by the tasks still in
\* the queue, in order.
C1_FifoOrder ==
    /\ aw_accepted = aw_processed \o SeqMap(aw_taskQueue, IdOf)
    /\ \A i, j \in 1..Len(aw_processed) :
          i # j => aw_processed[i] # aw_processed[j]
    /\ aw_task # NoTask => aw_task.id = aw_processed[Len(aw_processed)]

\* three accepted tasks have been received, the worker back at its select
C1_Witness ==
    /\ Len(aw_processed) >= 3
    /\ aw_pc = "select"
    /\ aw_taskQueue = <<>>

C3_StoppedFirst ==
    [][\A c \in Callers :
         (/\ aw_stopWorker
          /\ aw_call[c].pc = "idle"
          /\ aw_call'[c] # aw_call[c])
         => (/\ aw_call'[c].res = "stopped"
             /\ aw_call'[c].pc = "idle"
             /\ aw_taskQueue' = aw_taskQueue
             /\ aw_accepted' = aw_accepted)]_vars

\* a call on a stopped worker got the stopped error although the queue was
\* full
C3_Witness ==
    /\ aw_stopWorker
    /\ Len(aw_taskQueue) = QueueSize
    /\ \E c \in Callers : aw_call[c].res = "stopped"

(***************************************************************************)
(* Properties of Session.Close.                                            *)
(***************************************************************************)

\* C4: Session.Close is idempotent: no run of Close, the second included,
\* whether the handlers that call it run one after the other or at once,
\* panics on closing a channel that is already closed.
C4_CloseIdempotent == ss_panic # "close of closed channel"

(***************************************************************************)
(* Properties of the router.                                               *)
(***************************************************************************)

\* C5: after any sequence of Add and Delete the three indices agree:
\* readingToVoice[r] = v exactly when voiceToReading[v] = r, and the voice
\* channels of either map are exactly the keys of the session map.
C5_IndicesAgree ==
    /\ \A r \in ReadingChannelIDs, v \in VoiceChannelIDs :
          (r \in DOMAIN rt_readingToVoice /\ rt_readingToVoice[r] = v)
          <=> (v \in DOMAIN rt_voiceToReading /\ rt_voiceToReading[v] = r)
    /\ DOMAIN rt_voiceToReading = DOMAIN rt_sessions
    /\ {rt_readingToVoice[r] : r \in DOMAIN rt_readingToVoice} = DOMAIN rt_sessions

\* C6: a Delete of a voice channel that has no session (deleted before, or
\* never added) leaves the session map and both channel indices as they
\* were.
C6_DeleteIdempotent ==
    [][(rt_lastOp'.op = "Delete" /\ rt_lastOp'.voice \notin DOMAIN rt_sessions)
        => (/\ rt_sessions' = rt_sessions
            /\ rt_readingToVoice' = rt_readingToVoice
            /\ rt_voiceToReading' = rt_voiceToReading)]_vars

\* a voice channel without a session has been deleted while another
\* session is indexed
C6_Witness ==
    /\ rt_lastOp.op = "Delete"
    /\ ~rt_lastOp.present
    /\ rt_lastOp.voice \notin DOMAIN rt_sessions
    /\ DOMAIN rt_sessions # {}
    /\ DOMAIN rt_readingToVoice # {}

(***************************************************************************)
(* Properties of CachedTTSEngine.                                          *)
(***************************************************************************)

\* the calls of GenerateSpeech that have returned
Returned(w) == ce_call[w].pc = "idle" /\ ce_call[w].id # 0

\* C7: two calls of GenerateSpeech with the same request, made while no
\* entry expires, no cache operation fails and the engine does not fail,
\* invoke the wrapped engine at most once between them and return the same
\* bytes, whenever the second call comes relative to the first call's cache
\* write.
C7_EngineAtMostOnce ==
    ~ce_fault =>
        \A a, b \in Workers :
            (a # b /\ Returned(a) /\ Returned(b)
                /\ ce_call[a].request = ce_call[b].request)
            => /\ ~(ce_call[a].engine # "none" /\ ce_call[b].engine # "none")
               /\ ce_call[a].audio = ce_call[b].audio

\* C8 as stated: a call whose key has an entry in the cache when it reads
\* the cache returns the bytes of that entry and does not go on to the
\* wrapped engine.
C8_HeldEntryReturned ==
    [][\A w \in Workers :
          (ce_call[w].pc = "get" /\ ce_call'[w].pc # "get"
              /\ ce_call[w].key \in DOMAIN ce_cache)
          => /\ ce_call'[w].pc = "idle"
             /\ ce_call'[w].res = "ok"
             /\ ce_call'[w].audio = ce_cache[ce_call[w].key].Value
             /\ ce_call'[w].engine = "none"
             /\ ce_engineCalls' = ce_engineCalls]_vars

\* C8: a call whose read of the cache succeeds returns with that step, returns
\* exactly the bytes of the entry under its key, and neither has called nor
\* goes on to call the wrapped engine: the engine's call count is unchanged.
C8_ReadEntryReturned ==
    [][\A w \in Workers :
          (ce_call[w].pc = "get" /\ ce_call'[w].read = "found")
          => /\ ce_call[w].key \in DOMAIN ce_cache
             /\ ce_call'[w].pc = "idle"
             /\ ce_call'[w].res = "ok"
             /\ ce_call'[w].audio = ce_cache[ce_call[w].key].Value
             /\ ce_call'[w].engine = "none"
             /\ ce_engineCalls' = ce_engineCalls]_vars

C8_Witness ==
    \E w \in Workers :
        /\ Returned(w)
        /\ ce_call[w].read = "found"
        /\ ce_call[w].res = "ok"
        /\ ce_call[w].audio # NoAudio
        /\ ce_call[w].engine = "none"
        /\ ce_engineCalls = 1

\* C9: a failure of the cache never fails a request.  A call whose cache
\* read failed goes on to the wrapped engine as on a miss; a call whose
\* engine call succeeded returns the engine's audio, and a call returns an
\* error only when the engine returned one; the call returns while its cache
\* write is still to be done, and what it returned is not changed by the
\* write succeeding or failing.
C9_CacheFailuresAbsorbed ==
    /\ [](\A w \in Workers :
            /\ ce_call[w].read = "failed"
                  => ce_call[w].pc = "engine" \/ ce_call[w].engine # "none"
            /\ (Returned(w) /\ ce_call[w].engine = "ok")
                  => ce_call[w].res = "ok" /\ ce_call[w].audio = ce_call[w].made
            /\ (Returned(w) /\ ce_call[w].res = "error")
                  => ce_call[w].engine = "error")
    /\ [][\A w \in Workers :
            /\ (ce_call[w].pc = "engine" /\ ce_call'[w].engine = "ok")
                  => /\ Returned(w)'
                     /\ \E item \in ce_pending' : item.writer = ce_call[w].id
            /\ (Returned(w) /\ ce_call'[w].id = ce_call[w].id)
                  => ce_call'[w] = ce_call[w]]_vars

\* a call whose cache read failed has returned the engine's audio, and its
\* cache write has failed since
C9_Witness ==
    \E w \in Workers :
        /\ Returned(w)
        /\ ce_call[w].read = "failed"
        /\ ce_call[w].engine = "ok"
        /\ ce_call[w].res = "ok"
        /\ ce_call[w].audio = ce_call[w].made
        /\ ce_call[w].key \notin DOMAIN ce_cache
        /\ \A item \in ce_pending : item.writer # ce_call[w].id

\* C10: every entry written to the cache carries the ttl that was given to
\* NewCachedTTSEngine.
C10_EntryCarriesConfiguredTTL ==
    \A k \in DOMAIN ce_cache : ce_cache[k].TTL = ce_cfgTTL

(***************************************************************************)
(* Properties of the presets.                                              *)
(***************************************************************************)

\* the preset ID the precedence of Resolve selects for a guild and a user:
\* the one stored for the user, else the one stored for the guild, else the
\* fallback
SelectedPresetID(guildID, userID) ==
    IF <<ScopeUser, userID>> \in DOMAIN pr_rows
       THEN pr_rows[<<ScopeUser, userID>>]
    ELSE IF <<ScopeGuild, guildID>> \in DOMAIN pr_rows
       THEN pr_rows[<<ScopeGuild, guildID>>]
    ELSE pr_resolver.fallbackPresetID

\* C11: when the database answers and the stored preset IDs are registered,
\* Resolve(guild, user) returns without error the preset stored for the
\* user, else the preset stored for the guild, else the fallback preset; a
\* miss at user scope does not keep Resolve from the guild scope.
C11_ResolvePrecedence ==
    (/\ pr_last.op = "Resolve"
     /\ ~pr_last.storeFailed
     /\ SelectedPresetID(pr_last.guildID, pr_last.userID) \in DOMAIN pr_presets)
    => /\ pr_last.err = NoError
       /\ pr_last.preset =
             pr_presets[SelectedPresetID(pr_last.guildID, pr_last.userID)]

C13_UnregisteredFallsBack ==
    LET selected ==
            IF pr_last.op = "Resolve"
               THEN SelectedPresetID(pr_last.guildID, pr_last.userID)
               ELSE SelectedPresetID(pr_last.guildID, 0)
    IN (/\ pr_last.op \in {"Resolve", "ResolveGuildPreset"}
        /\ ~pr_last.storeFailed
        /\ selected \notin DOMAIN pr_presets)
       => /\ pr_last.err = NoError
          /\ pr_last.preset = pr_presets[pr_resolver.fallbackPresetID]

\* C14: a Register of a preset with an empty identifier, an empty engine or
\* an identifier already registered returns an error and leaves the
\* registry as it was; after a Register without error Get returns the
\* preset; and no step replaces or removes a registered preset.
C14_RegisteredNeverReplaced ==
    [][/\ pr_last'.op = "Register" =>
             LET p == pr_last'.preset IN
             /\ (p.Identifier = "" \/ p.Engine = ""
                    \/ p.Identifier \in DOMAIN pr_presets)
                   => pr_last'.err # NoError /\ pr_presets' = pr_presets
             /\ pr_last'.err = NoError
                   => Get(pr_presets', p.Identifier) = [preset |-> p, ok |-> TRUE]
       /\ \A id \in DOMAIN pr_presets :
             Get(pr_presets', id) = [preset |-> pr_presets[id], ok |-> TRUE]]_vars

\* a Register of another preset under a registered identifier was refused
C14_Witness ==
    /\ pr_last.op = "Register"
    /\ pr_last.err # NoError
    /\ pr_last.preset.Identifier \in DOMAIN pr_presets
    /\ pr_presets[pr_last.preset.Identifier] # pr_last.preset
    /\ Cardinality(DOMAIN pr_presets) >= 2

\* C15: a Find the database answers returns the preset ID of the last Save
\* made for its key when no Delete of the key came after it, and ErrNotFound
\* when the key was never saved or was deleted last.
C15_FindLastSave ==
    (pr_last.op = "Find" /\ pr_last.err # ErrStore) =>
        LET written == pr_written[<<pr_last.scope, pr_last.id>>] IN
        IF written.op = "Save"
           THEN pr_last.err = NoError /\ pr_last.presetID = written.presetID
           ELSE pr_last.err = ErrNotFound /\ pr_last.presetID = ""

\* a Find returned the preset ID of a Save that replaced another one, while
\* the other key was deleted
C15_Witness ==
    /\ pr_last.op = "Find"
    /\ pr_last.err = NoError
    /\ pr_written[<<pr_last.scope, pr_last.id>>].replaced
    /\ pr_last.presetID = pr_written[<<pr_last.scope, pr_last.id>>].presetID
    /\ \E key \in DOMAIN pr_written : pr_written[key].op = "Delete"

(***************************************************************************)
(* Properties of the voice-state handler.                                  *)
(***************************************************************************)

\* a user other than the departed one who is not a bot is in the channel
NonBotRemains(channelID, departedUserID) ==
    \E userID \in UserIDs \ {departedUserID} :
        userID \notin Bots /\ lv_voiceStates[userID] = channelID

\* C16: after a user left a voice channel that has a session, the session
\* is closed, gone from the router and OnDeleted was called when no user
\* who is not a bot remains in the channel; otherwise the session is open,
\* in the router and OnDeleted was not called.
C16_LeaveClosesWhenEmpty ==
    (lv_last.op = "leave" /\ lv_last.found) =>
        IF NonBotRemains(lv_last.channelID, lv_last.userID)
           THEN lv_live /\ lv_inRouter /\ ~lv_last.OnDeleted
           ELSE ~lv_live /\ ~lv_inRouter /\ lv_last.OnDeleted

\* C17: isVoiceChannelEmpty returns true only when no user other than the
\* departed one who is not a bot is in the channel, whether or not the
\* users in the channel can be looked up.
C17_EmptyOnlyWithoutOccupant ==
    (lv_last.op = "leave" /\ lv_last.result = "LeaveResultClose") =>
        ~NonBotRemains(lv_last.channelID, lv_last.userID)

(***************************************************************************)
(* Properties of managerImpl under its mutex.                              *)
(***************************************************************************)

\* the call of Add or Delete the goroutine made has returned
CompletedNotifying(g) ==
    rl_call[g].pc = "idle" /\ rl_call[g].call.op \in {"Add", "Delete"}

\* the goroutine is between Lock and the return of the method
InMethod(g) == rl_call[g].pc \in {"body", "notify", "store", "return"}

\* the observer calls owed by a call: one for every entry the list of
\* observers had when the call took the lock, in the order of the list,
\* with the identifiers of the call, and for Delete the reading channel
\* that was indexed for the voice channel
OwedNotifications(c) ==
    [i \in 1..Len(c.observersAtLock) |->
        [observer |-> c.observersAtLock[i],
         event |-> IF c.call.op = "Add"
                      THEN SessionEvent("OnCreated", c.call, c.call.ReadingChannelID)
                      ELSE SessionEvent("OnDeleted", c.call, c.readingAtLock)]]

\* the number of observer calls a call made on one observer
TimesNotified(c, observer) ==
    Cardinality({i \in 1..Len(c.delivered) : c.delivered[i].observer = observer})

\* C18 as stated: a call of Add or Delete that has returned has called
\* every observer that was registered exactly once, and no other observer.
C18_NotifiedOncePerObserver ==
    \A g \in Goroutines :
        CompletedNotifying(g) =>
            \A observer \in Observers :
                TimesNotified(rl_call[g], observer) =
                    IF \E i \in 1..Len(rl_call[g].observersAtLock) :
                           rl_call[g].observersAtLock[i] = observer
                       THEN 1 ELSE 0

\* C18: a call of Add or Delete that has returned has made, before it
\* returned, exactly one observer call for every registration in the list
\* of observers, carrying the identifiers of the call and for Delete the
\* reading channel that was indexed; no two goroutines are inside a method
\* of the router at once; and every observer call goes to an observer that
\* is registered when it is made.
C18_NotifiedPerRegistration ==
    /\ [](\A g \in Goroutines :
            CompletedNotifying(g) =>
                rl_call[g].delivered = OwedNotifications(rl_call[g]))
    /\ [](\A g, h \in Goroutines : g # h => ~(InMethod(g) /\ InMethod(h)))
    /\ [][\A g \in Goroutines :
            (rl_call'[g].delivered # rl_call[g].delivered
                /\ rl_call'[g].delivered # <<>>)
            => \E i \in 1..Len(rl_observers) :
                  rl_observers[i] =
                      rl_call'[g].delivered[Len(rl_call'[g].delivered)].observer]_vars

\* a Delete has called two different observers with the reading channel
\* that was indexed, while the other goroutine waits for the mutex
C18_Witness ==
    \E g, h \in Goroutines :
        /\ g # h
        /\ CompletedNotifying(g)
        /\ rl_call[g].call.op = "Delete"
        /\ rl_call[g].readingAtLock # NoChannel
        /\ Len(rl_call[g].delivered) = 2
        /\ rl_call[g].delivered[1].observer # rl_call[g].delivered[2].observer
        /\ rl_call[g].delivered[2].event.ReadingChannelID = rl_call[g].readingAtLock
        /\ rl_call[h].pc = "lock"

\* C19: no goroutine holds the mutex of the router while a write to the
\* persistence store is in progress in it.
C19_NoLockDuringStore ==
    \A g \in Goroutines : rl_call[g].pc = "store" => rl_mu # g

\* C20: a step of the audio worker's processTask on a task that has later
\* segments, whether the synthesis of the current segment succeeds, fails
\* or times out, leaves exactly the later segments of the task still to be
\* synthesized, and the worker stays in the loop over the segments.
C20_FailureDropsOneSegment ==
    [][(aw_pc = "segments" /\ Len(aw_task.Segments) > 1 /\ aw_task' # aw_task)
        => /\ aw_pc' = "segments"
           /\ aw_task'.id = aw_task.id
           /\ aw_task'.Segments = Tail(aw_task.Segments)]_vars

\* C21: when the worker takes a task from the queue, the task it goes on to
\* process starts with the speaker-name segment, and lastSpeakerID becomes
\* the task's speaker, exactly when the task carries a speaker annotation
\* and its speaker differs from lastSpeakerID; otherwise the segments and
\* lastSpeakerID are as they were.
C21_SpeakerNameOnChange ==
    [][aw_processed' # aw_processed =>
        LET task == Head(aw_taskQueue)
            changed == task.ContainsName /\ task.Speaker # aw_lastSpeakerID
        IN /\ aw_lastSpeakerID' = IF changed THEN task.Speaker ELSE aw_lastSpeakerID
           /\ aw_task' # NoTask =>
                 aw_task'.Segments =
                     IF changed
                        THEN <<SpeakerName(task.Speaker)>> \o task.Segments
                        ELSE task.Segments]_vars

\* the worker processes the second of two consecutive annotated tasks of
\* speaker 1 without the speaker-name segment, having announced the first
C21_Witness ==
    /\ aw_processed = <<1, 2>>
    /\ aw_task.id = 2
    /\ aw_task.ContainsName
    /\ aw_task.Segments = <<"b", "c">>
    /\ aw_lastSpeakerID = 1

(***************************************************************************)
(* Properties of PersistenceManager.                                       *)
(***************************************************************************)

OwnKeys == {key \in StoreKeys : KeyApplication(key) = ApplicationID}

\* C22: every write of a session record, by OnCreated and by the heartbeat,
\* gives the record a TTL of three heartbeat intervals; when three
\* heartbeat intervals have passed since the process stopped the store
\* holds none of its records; and a Restore of a process started after
\* that starts no restoration of a record of the process.
C22_LeaseExpires ==
    /\ [][\A key \in OwnKeys :
            (/\ pm_store'[key] # pm_store[key]
             /\ pm_store'[key] # NoEntry
             /\ pm_beat'.untilTick = pm_beat.untilTick
             /\ pm_proc' = pm_proc)
            => pm_store'[key].ttl = 3 * HeartbeatInterval]_vars
    /\ [](\A key \in OwnKeys : pm_store[key].ttl <= 3 * HeartbeatInterval)
    /\ []((pm_proc.state = "crashed"
             /\ pm_proc.sinceCrash >= 3 * HeartbeatInterval)
            => OwnKeys \cap PresentKeys = {})
    /\ []((pm_proc.state = "running" /\ pm_proc.late)
            => \A key \in OwnKeys : pm_go[key].st = "none")

\* the process stopped almost three heartbeat intervals ago, and a record
\* it wrote just before is in the last time unit of its lease
C22_Witness ==
    /\ pm_proc.state = "crashed"
    /\ pm_proc.sinceCrash = 3 * HeartbeatInterval - 1
    /\ \E key \in OwnKeys \cap PresentKeys : pm_store[key].ttl = 1

C24_StoredSessionRestored ==
    (pm_proc.state = "running" /\ pm_restore.pc = "done")
    => \A key \in OwnKeys \cap pm_scan :
          pm_go[key].st \in {"added", "running", "unread", "failed", "blocked"}

\* C25: the read of one record by Restore, failed or timed out, leaves the
\* read of every other record possible: whenever Restore is about to read
\* a record that the store holds, the context it reads under is live.
C25_ReadsIndependent ==
    \A key \in StoreKeys :
        (/\ pm_proc.state = "running"
         /\ pm_restore.pc = "keys"
         /\ key \in pm_restore.keys \cap PresentKeys)
        => pm_restore.ctx = "live"

\* C26: no goroutine of Restore is started for a record that another
\* instance wrote.
C26_OwnNamespaceOnly ==
    \A key \in StoreKeys \ OwnKeys :
        pm_go[key].st \notin {"running", "added", "failed", "blocked"}

\* C27: once Restore has returned without an error, it has read every
\* record of this instance that the store has held since Restore began.
C27_ScanComplete ==
    (pm_proc.state = "running" /\ pm_restore.pc = "done")
    => \A key \in OwnKeys \cap pm_scan :
          key \notin pm_restore.left \cup pm_restore.keys

\* C29: the wait of the session's player in next() ends after Session.Close:
\* once Close has closed both channels and the worker has returned, either
\* the player's close channel is closed or a response is there to receive.
C29_PlayerWaitEnds ==
    (ss_panic = NoPanic /\ ss_stopWorker /\ ss_queueClosed /\ ss_pc = "done")
    => (trackClose \/ ss_audioQueue # <<>>)

\* TRUE of the segment that Session.worker puts in front for the speaker
IsSpeakerName(segment) == SpeakerName(1) = segment

\* the response made of the speaker name (name = TRUE) or of the text
\* (name = FALSE) of task id, with a supported format, is in the audio queue
SupportedQueued(id, name) ==
    \E i \in 1..Len(ss_audioQueue) :
        /\ ConvertToFrameProvider(ss_audioQueue[i])
        /\ ss_audioQueue[i].task = id
        /\ IsSpeakerName(ss_audioQueue[i].segment) = name

Playing(id, name) ==
    /\ ss_provider # NoTrack
    /\ ss_provider.task = id
    /\ IsSpeakerName(ss_provider.segment) = name

\* a step in which the player takes an unsupported response from the queue
PlayerTakesUnsupported ==
    /\ ss_audioQueue # <<>>
    /\ Head(ss_audioQueue).Format # "mp3"
    /\ ss_audioQueue' = Tail(ss_audioQueue)

LayoutOrder ==
    IF cd_variant = "applicationID"
       THEN <<"applicationID", "guildID", "voiceChannelID", "readingChannelID">>
       ELSE <<"guildID", "voiceChannelID", "readingChannelID">>

LayoutLen == IF cd_variant = "applicationID" THEN 32 ELSE 24

\* C28: the encoding of a record is 24 bytes, 32 with the application ID,
\* and holds the fields in the order [application,] guild, voice channel,
\* reading channel, each as eight bytes with the most significant first;
\* UnmarshalBinary of the bytes MarshalBinary returned yields the record
\* and no error; UnmarshalBinary of bytes of any other length returns an
\* error and leaves the target record as it was.
C28_EncodingRoundTrips ==
    LET encoded == MarshalBinary(cd_variant, cd_session) IN
    cd_pc = "done" =>
       /\ Len(encoded) = LayoutLen
       /\ \A i \in 1..Len(encoded) : encoded[i] \in 0..255
       /\ \A n \in 1..Len(LayoutOrder) : \A word \in 1..4 :
             cd_session[LayoutOrder[n]][word] =
                encoded[8 * (n - 1) + 2 * word - 1] * 256
                   + encoded[8 * (n - 1) + 2 * word]
       /\ cd_data = encoded => (cd_err = "nil" /\ cd_target = cd_session)
       /\ Len(cd_data) # LayoutLen => (cd_err # "nil" /\ cd_target = cd_before)

\* a record with the application ID, its fields different from each other
\* and from the target's, has been encoded and decoded into the target
C28_Witness ==
    /\ cd_pc = "done"
    /\ cd_variant = "applicationID"
    /\ cd_data = MarshalBinary(cd_variant, cd_session)
    /\ cd_session.guildID = <<65535, 65535, 65535, 65534>>
    /\ cd_session.voiceChannelID = <<258, 772, 1286, 1800>>
    /\ cd_before # cd_session
    /\ cd_target = cd_session

\* C31: the synthesis engine is never called with an empty text: no audio
\* that reaches the player's queue was synthesized from an empty segment.
C31_NoEmptyTextSynthesized ==
    \A i \in 1..Len(tp_queue) : tp_queue[i][2] # ""

\* the tracks handed to the player that it has not finished: the one it
\* plays, then the ones waiting in its queue
Handed == (IF tp_provider # NoTrack THEN <<tp_provider>> ELSE <<>>) \o tp_queue

\* the place of task id in the order in which the worker dequeued the tasks
DequeuedAt(id) == CHOOSE i \in 1..Len(aw_processed) : aw_processed[i] = id

\* the place of a track's segment in its task: the speaker name in front,
\* then the segments in the order the task was made with
SegmentAt(track) ==
    IF \E speaker \in 1..2 : SpeakerName(speaker) = track[2]
       THEN 0
       ELSE CHOOSE i \in 1..Len(NewSpeechTask(track[1]).Segments) :
               track[2] = NewSpeechTask(track[1]).Segments[i]

UtteranceBefore(x, y) ==
    \/ DequeuedAt(x[1]) < DequeuedAt(y[1])
    \/ x[1] = y[1] /\ SegmentAt(x) < SegmentAt(y)

C33_FullAudioQueueNeverBlocks ==
    (ss_panic = NoPanic /\ ss_pc = "push") => ENABLED SessionPush

\* C34: an enqueue that runs concurrently with Session.Close never sends
\* on the closed task channel: the process never panics with a send on a
\* closed channel.
C34_NoSendOnClosedQueue == ss_panic # "send on closed channel"

\* C35: after Session.Close the worker starts processing no further task:
\* once Close has closed the stop channel and the task queue, the worker
\* takes none of the tasks still in the task queue.
C35_NoTaskAfterClose ==
    [][(ss_stopWorker /\ ss_queueClosed /\ ss_taskQueue # <<>>)
          => ~(ss_pc = "select" /\ ss_pc' = "segments")]_vars

\* C36: GetByReadingChannel returns ok = true only together with a non-nil
\* session that is in the session map.
C36_RoutedSessionIsLive ==
    \A r \in ReadingChannelIDs :
        GetByReadingChannel(r).ok =>
            /\ GetByReadingChannel(r).session # NilSession
            /\ \E v \in DOMAIN rt_sessions :
                  rt_sessions[v] = GetByReadingChannel(r).session

\* C37: after OnDeleted the record of the session stays absent until the
\* next OnCreated for its voice channel: a record of this instance comes
\* into being in the store only for a session that the persistence manager
\* tracks.
C37_DeletedStaysAbsent ==
    [][\A v \in PersistVoiceChannels :
          (/\ pm_store[generateKey(ApplicationID, v)] = NoEntry
           /\ pm_store'[generateKey(ApplicationID, v)] # NoEntry)
          => pm_persistentSessions'[v] # NoSession]_vars

\* C38: the map of tracked records is never accessed by two goroutines at
\* once: while the heartbeat goroutine is inside its range over the map, no
\* OnCreated or OnDeleted writes the map.
C38_NoWriteDuringRange ==
    [][(pm_beat.pc = "range" /\ pm_proc'.state = "running")
          => pm_persistentSessions' = pm_persistentSessions]_vars

\* C39: the key a call of GenerateSpeech computes is the key its request
\* yields when the call runs alone, whatever other calls run beside it.
C39_KeyOfRequestAlone ==
    \A w \in Workers :
        ce_call[w].pc \in {"get", "engine"}
           => ce_call[w].key = KeyOf(ce_call[w].request)

\* C40: with the resolveID of preset.go:112-130, a Resolve or
\* ResolveGuildPreset in which a lookup of the store failed with an error
\* other than ErrNotFound returns the fallback preset and no error; after a
\* store error at user scope the guild scope is not consulted; and Resolve
\* returns an error only when the preset ID it chose is not in the registry.
C40_StoreErrorFallsBack ==
    (pr_variant = 1 /\ pr_last.op \in {"Resolve", "ResolveGuildPreset"}) =>
       /\ ErrStore \in {pr_last.userErr, pr_last.guildErr}
             => /\ pr_last.err = NoError
                /\ pr_last.preset = pr_presets[pr_resolver.fallbackPresetID]
       /\ pr_last.userErr = ErrStore => pr_last.guildErr = "not called"
       /\ pr_last.err # NoError
             => LET key == IF pr_last.userErr = NoError
                              THEN <<ScopeUser, pr_last.userID>>
                              ELSE <<ScopeGuild, pr_last.guildID>>
                IN /\ NoError \in {pr_last.userErr, pr_last.guildErr}
                   /\ key \in DOMAIN pr_rows
                   /\ pr_rows[key] \notin DOMAIN pr_presets

\* the user-scope lookup failed in the store while the guild has a
\* registered preset other than the fallback stored; Resolve returned the
\* fallback preset
C40_Witness ==
    /\ pr_variant = 1
    /\ pr_last.op = "Resolve"
    /\ pr_last.userErr = ErrStore
    /\ <<ScopeGuild, pr_last.guildID>> \in DOMAIN pr_rows
    /\ pr_rows[<<ScopeGuild, pr_last.guildID>>] \in DOMAIN pr_presets
    /\ pr_rows[<<ScopeGuild, pr_last.guildID>>] # pr_resolver.fallbackPresetID
    /\ pr_last.err = NoError
    /\ pr_last.preset = pr_presets[pr_resolver.fallbackPresetID]

====
